---- MODULE Spec2Model ----
(***************************************************************************)
(* Model of the event-ordering and replay-control subsystem of sts:        *)
(*   sts/control_flow.py  Replayer, MCSFinder, ReplaySyncCallback          *)
(*   sts/entities.py      DeferredOFConnection                             *)
(* together with the collaborators they drive (EventDag, OpenFlowBuffer,   *)
(* SyncTime), which live outside the files modelled here.                  *)
(***************************************************************************)
EXTENDS Integers, Sequences, FiniteSets, TLC

VARIABLES
  \* ---- EventDag (sts.event), fixed after construction
  dag,               \* sequence of event timestamps, in DAG order
  dependents,        \* event -> the events causally dependent on it
  \* ---- environment of a replay: which events the violation needs
  Required,
  violationReproducible,
  \* ---- Replayer / MCSFinder
  klass,             \* "Replayer" or "MCSFinder"
  pc,                \* position inside simulate()
  visited,           \* the pruned events the pruning loop has visited so far
  yielded,           \* events whose watcher the current pass has produced
  running,           \* event whose watcher is executing, 0 if none
  completed,         \* events whose watcher has returned in this pass
  bootstraps,        \* number of simulation.bootstrap() calls so far
  interpolated_time, \* Replayer.interpolated_time
  mcs,               \* value returned by MCSFinder.simulate, <<>> if none yet
  lastQuery,         \* <<>> or <<[value, prev, landmark]>>: last time query
  controlResult,     \* <<>> or <<violation reproduced in the control run>>
  confirmedPrunable, \* events whose pruned run still reproduced the violation
  round,             \* the Replayer's round count
  invoked,           \* event -> calls of its watcher's run in the current pass
  \* ---- DeferredOFConnection and the OpenFlowBuffer it feeds
  true_on_message_handler, \* connection -> "None" or the switch's handler
  pending_receives,  \* buffered inbound entries, in insertion order
  pending_sends,     \* buffered outbound entries, in insertion order
  issued,            \* every handle the buffer has returned, by id
  delivered,         \* calls of the switches' true message handler, in order
  transport,         \* messages handed to OFConnection.send, in order
  releases,          \* handle id -> number of times the entry was released
  drops,             \* handle id -> number of times the entry was dropped
  lastOp,            \* <<>> or <<[op, id, result]>>: the last schedule/drop
  \* ---- ReplaySyncCallback
  pending_state_changes, \* the Counter: stored key -> count
  calls,             \* key -> the state_change ("s") and gc ("g") calls made
  lastPending,       \* <<>> or <<[key, result]>>: last state_change_pending
  lastReturn,        \* <<>> or <<outcome of the last get_deterministic_value>>
  \* ---- Fuzzer: what the constructor was given
  params,            \* the fuzzer parameters module: rate name -> rate
  defined_rates,     \* the rate names the parameters module defines
  check_interval,
  trace_interval,
  steps,
  input_logger,      \* "None" or "logger"
  network,           \* the kinds of event the network produces in this run
  \* ---- Fuzzer: its run
  fpc,               \* where the control thread is in simulate
  logical_time,
  end_time,
  thread_alive,      \* the correspondence thread is running
  round_calls,       \* the calls of the round in progress, in order
  raised,            \* "" or the exception that left simulate
  \* ---- the Simulation the Fuzzer drives
  dataplane_trace,   \* "None" or "trace"
  queued_dataplane_events, \* the patch panel's queue, in iteration order
  dp_events,         \* every dataplane event queued so far, by fingerprint
  live_switches,
  live_links,
  live_controllers,
  blocked_controller_connections,
  echo_requests,     \* keepalives sent during the running check
  \* ---- Input Logger
  input_log,         \* the records passed to log_input_event, in order
  closed,            \* number of calls of the logger's close
  \* ---- FuzzSoftwareSwitch and Controller
  switch,            \* the fields of a FuzzSoftwareSwitch
  controller,        \* the fields of a Controller
  entity_calls,      \* the calls made on them, with the entities afterwards
  \* ---- The control thread's iteration over pending_receives()
  iterator,          \* the receipts of the snapshot not yet visited
  \* ---- debugger.py: the child controllers and their cleanup
  debugger           \* child_processes, the activations of kill_children

dagVars == <<dag, dependents, Required, violationReproducible>>
replayVars == <<klass, pc, visited, yielded, running, completed, bootstraps,
                interpolated_time, mcs, lastQuery, controlResult,
                confirmedPrunable, round, invoked>>
bufVars == <<true_on_message_handler, pending_receives, pending_sends, issued,
             delivered, transport, releases, drops, lastOp>>
syncVars == <<pending_state_changes, calls, lastPending, lastReturn>>
fuzzConfig == <<params, defined_rates, check_interval, trace_interval, steps,
                input_logger, dataplane_trace, network>>
fuzzRun == <<fpc, logical_time, end_time, thread_alive, round_calls, raised>>
simVars == <<queued_dataplane_events, dp_events, live_switches, live_links,
             live_controllers, blocked_controller_connections, echo_requests>>
logVars == <<input_log, closed>>
entVars == <<switch, controller, entity_calls>>
drainVars == <<iterator>>
dbgVars == <<debugger>>
fuzzVars == <<fuzzConfig, fuzzRun, simVars, logVars, entVars, drainVars,
              dbgVars>>
vars == <<dagVars, replayVars, bufVars, syncVars, fuzzVars>>

(***************************************************************************)
(* Bounds                                                                  *)
(***************************************************************************)
NumEvents == 3
MaxSec == 2
Micros == {0, 300, 700}

(***************************************************************************)
(* SyncTime (sts.syncproto.base): a (seconds, microSeconds) pair compared  *)
(* lexicographically.                                                      *)
(***************************************************************************)
SyncTime(s, m) == [seconds |-> s, microSeconds |-> m]

SyncTimes == {SyncTime(s, m) : s \in 1..MaxSec, m \in Micros}

TimeLess(a, b) ==
  \/ a.seconds < b.seconds
  \/ a.seconds = b.seconds /\ a.microSeconds < b.microSeconds

TimeLeq(a, b) == a = b \/ TimeLess(a, b)

Max(a, b) == IF a >= b THEN a ELSE b

Range(seq) == {seq[i] : i \in 1..Len(seq)}

(***************************************************************************)
(* EventDag                                                                *)
(***************************************************************************)
Events == 1..Len(dag)

\* e1 is causally before e2: e2 is reachable from e1 through dependents.
RECURSIVE CausallyBefore(_, _)
CausallyBefore(e1, e2) ==
  \/ e2 \in dependents[e1]
  \/ \E c \in dependents[e1] : CausallyBefore(c, e2)

\* Recorded traces: timestamps in recording order, dependents recorded later.
Traces(n) ==
  {t \in [1..n -> SyncTimes] : \A i \in 1..(n - 1) : TimeLeq(t[i], t[i + 1])}

ForwardPairs(n) == {p \in (1..n) \X (1..n) : p[1] < p[2]}

DependencyMaps(n) ==
  {[i \in 1..n |-> {j \in 1..n : <<i, j>> \in E}] :
     E \in SUBSET ForwardPairs(n)}

\* EventDag.events(): the full ordered sequence
events == [i \in 1..Len(dag) |-> i]

\* EventDag.event_watchers(): the next watcher of the unpruned view is the
\* first event, in DAG order, not produced yet.
NextWatchers ==
  {e \in Events \ yielded : \A f \in Events \ yielded : e <= f}

\* EventDag.event_watchers(pruned_event): the pruned view leaves out
\* pruned_event and produces the rest in a feasible order.
NextPrunedWatchers(pruned_event) ==
  {e \in Events \ (yielded \cup {pruned_event}) :
     \A f \in Events \ {pruned_event} : CausallyBefore(f, e) => f \in yielded}

\* Whether a replay of exactly the events of ran shows the violation.
Reproduces(ran) == violationReproducible /\ Required \subseteq ran

(***************************************************************************)
(* Replayer                                                                *)
(***************************************************************************)
time_epsilon_microseconds == 500

\* Replayer.compute_interpolated_time: the value assigned to interpolated_time
compute_interpolated_time(next_time) ==
  LET just_before_micro == next_time.microSeconds - time_epsilon_microseconds
  IN  SyncTime(next_time.seconds, Max(0, just_before_micro))

\* Replayer.get_interpolated_time
get_interpolated_time == interpolated_time

\* Replayer.increment_round: the round count afterwards. The body is pass.
increment_round(r) == r

\* The landmark: the first event of the DAG not replayed in this pass.
Unreplayed == Events \ completed

Landmark ==
  IF Unreplayed = {} THEN <<>>
  ELSE <<dag[CHOOSE e \in Unreplayed : \A f \in Unreplayed : e <= f]>>

InitReplay(k) ==
  /\ klass = k
  /\ pc = "constructed"
  /\ visited = <<>>
  /\ yielded = {}
  /\ running = 0
  /\ completed = {}
  /\ bootstraps = 0
  /\ interpolated_time = compute_interpolated_time(dag[1])
  /\ mcs = <<>>
  /\ lastQuery = <<>>
  /\ controlResult = <<>>
  /\ confirmedPrunable = {}
  /\ round = 0
  /\ invoked = [e \in Events |-> 0]

\* Replayer.simulate, up to the loop: simulation.bootstrap()
SimulateBootstrap ==
  /\ pc = "constructed"
  /\ bootstraps' = bootstraps + 1
  /\ pc' = "iterate"
  /\ UNCHANGED <<bufVars, syncVars, fuzzVars, dagVars, round, invoked>>
  /\ UNCHANGED <<klass, visited, yielded, running, completed,
                 interpolated_time, mcs, lastQuery, controlResult,
                 confirmedPrunable>>

\* Variant of WatcherRun that does not wait for the running watcher to return
WatcherRunNoWait ==
  /\ pc \in {"iterate", "running"}
  /\ visited = <<>>
  /\ \E e \in NextWatchers :
       /\ interpolated_time' = compute_interpolated_time(dag[e])
       /\ running' = e
       /\ yielded' = yielded \cup {e}
       /\ invoked' = [invoked EXCEPT ![e] = @ + 1]
  /\ pc' = "running"
  /\ UNCHANGED <<bufVars, syncVars, fuzzVars, dagVars, round>>
  /\ UNCHANGED <<klass, visited, completed, bootstraps, mcs, lastQuery,
                 controlResult, confirmedPrunable>>

\* Variant of WatcherRun that leaves the interpolated time as it is
WatcherRunStaleTime ==
  /\ pc = "iterate"
  /\ visited = <<>>
  /\ \E e \in NextWatchers :
       /\ running' = e
       /\ yielded' = yielded \cup {e}
       /\ invoked' = [invoked EXCEPT ![e] = @ + 1]
  /\ pc' = "running"
  /\ UNCHANGED <<bufVars, syncVars, fuzzVars, dagVars, round>>
  /\ UNCHANGED <<klass, visited, completed, bootstraps, mcs, lastQuery,
                 controlResult, confirmedPrunable, interpolated_time>>

\* Replayer.simulate, loop body up to the call of event_watcher.run
WatcherRun ==
  /\ pc = "iterate"
  /\ visited = <<>>
  /\ \E e \in NextWatchers :
       /\ interpolated_time' = compute_interpolated_time(dag[e])
       /\ running' = e
       /\ yielded' = yielded \cup {e}
       /\ invoked' = [invoked EXCEPT ![e] = @ + 1]
  /\ pc' = "running"
  /\ UNCHANGED <<bufVars, syncVars, fuzzVars, dagVars, round>>
  /\ UNCHANGED <<klass, visited, completed, bootstraps, mcs, lastQuery,
                 controlResult, confirmedPrunable>>

\* event_watcher.run returns; increment_round()
WatcherReturn ==
  /\ pc = "running"
  /\ round' = increment_round(round)
  /\ completed' = completed \cup {running}
  /\ running' = 0
  /\ pc' = "iterate"
  /\ UNCHANGED <<bufVars, syncVars, fuzzVars, dagVars, invoked>>
  /\ UNCHANGED <<klass, visited, yielded, bootstraps,
                 interpolated_time, mcs, lastQuery, controlResult,
                 confirmedPrunable>>

\* Variant of WatcherRaise that catches the exception and tries the watcher
\* again
WatcherRaiseRetry ==
  /\ pc = "running"
  /\ running' = 0
  /\ yielded' = yielded \ {running}
  /\ pc' = "iterate"
  /\ UNCHANGED <<bufVars, syncVars, fuzzVars, dagVars, round, invoked>>
  /\ UNCHANGED <<klass, visited, completed, bootstraps,
                 interpolated_time, mcs, lastQuery, controlResult,
                 confirmedPrunable>>

\* event_watcher.run raises: the exception leaves simulate
WatcherRaise ==
  /\ pc = "running"
  /\ running' = 0
  /\ pc' = "error"
  /\ UNCHANGED <<bufVars, syncVars, fuzzVars, dagVars, round, invoked>>
  /\ UNCHANGED <<klass, visited, yielded, completed, bootstraps,
                 interpolated_time, mcs, lastQuery, controlResult,
                 confirmedPrunable>>

\* Replayer.simulate returns: the watchers are exhausted
SimulateReturn ==
  /\ pc = "iterate"
  /\ visited = <<>>
  /\ NextWatchers = {}
  /\ klass = "Replayer"
  /\ pc' = "done"
  /\ UNCHANGED <<bufVars, syncVars, fuzzVars, dagVars, round, invoked>>
  /\ UNCHANGED <<klass, visited, yielded, running, completed,
                 bootstraps, interpolated_time, mcs, lastQuery, controlResult,
                 confirmedPrunable>>

(***************************************************************************)
(* MCSFinder                                                               *)
(***************************************************************************)
\* The event the current pruned pass leaves out
pruned_event == visited[Len(visited)]

\* MCSFinder.simulate: Replayer.simulate(self, simulation) has returned;
\* mcs = []. The result of the control run is not looked at.
ControlRunReturn ==
  /\ pc = "iterate"
  /\ visited = <<>>
  /\ NextWatchers = {}
  /\ klass = "MCSFinder"
  /\ mcs' = <<>>
  /\ controlResult' = <<Reproduces(completed)>>
  /\ pc' = "outer"
  /\ UNCHANGED <<bufVars, syncVars, fuzzVars, dagVars, round, invoked>>
  /\ UNCHANGED <<klass, visited, yielded, running, completed,
                 bootstraps, interpolated_time, lastQuery, confirmedPrunable>>

\* for pruned_event in self.dag.events(): self.simulation.bootstrap()
PruneBootstrap ==
  /\ pc = "outer"
  /\ Len(visited) < Len(events)
  /\ visited' = Append(visited, events[Len(visited) + 1])
  /\ bootstraps' = bootstraps + 1
  /\ yielded' = {}
  /\ completed' = {}
  /\ invoked' = [e \in Events |-> 0]
  /\ pc' = "iterate"
  /\ UNCHANGED <<bufVars, syncVars, fuzzVars, dagVars, round>>
  /\ UNCHANGED <<klass, running, interpolated_time, mcs, lastQuery,
                 controlResult, confirmedPrunable>>

\* Variant of PrunedWatcherRun that iterates self.dag.event_watchers()
PrunedWatcherRunUnpruned ==
  /\ pc = "iterate"
  /\ visited # <<>>
  /\ \E e \in NextWatchers :
       /\ running' = e
       /\ yielded' = yielded \cup {e}
       /\ invoked' = [invoked EXCEPT ![e] = @ + 1]
  /\ pc' = "running"
  /\ UNCHANGED <<bufVars, syncVars, fuzzVars, dagVars, round>>
  /\ UNCHANGED <<klass, visited, completed, bootstraps,
                 interpolated_time, mcs, lastQuery, controlResult,
                 confirmedPrunable>>

\* for event_watcher in self.dag.event_watchers(pruned_event):
\*   event_watcher.run(self.simulation) is called
PrunedWatcherRun ==
  /\ pc = "iterate"
  /\ visited # <<>>
  /\ \E e \in NextPrunedWatchers(pruned_event) :
       /\ running' = e
       /\ yielded' = yielded \cup {e}
       /\ invoked' = [invoked EXCEPT ![e] = @ + 1]
  /\ pc' = "running"
  /\ UNCHANGED <<bufVars, syncVars, fuzzVars, dagVars, round>>
  /\ UNCHANGED <<klass, visited, completed, bootstraps,
                 interpolated_time, mcs, lastQuery, controlResult,
                 confirmedPrunable>>

\* The watchers of the pruned view are exhausted: back to the outer loop.
\* confirmedPrunable records what an invariant check would say here; the
\* loop does not ask.
PrunedPassEnd ==
  /\ pc = "iterate"
  /\ visited # <<>>
  /\ NextPrunedWatchers(pruned_event) = {}
  /\ confirmedPrunable' =
       IF Reproduces(completed) THEN confirmedPrunable \cup {pruned_event}
       ELSE confirmedPrunable
  /\ pc' = "outer"
  /\ UNCHANGED <<bufVars, syncVars, fuzzVars, dagVars, round, invoked>>
  /\ UNCHANGED <<klass, visited, yielded, running, completed,
                 bootstraps, interpolated_time, mcs, lastQuery, controlResult>>

\* return mcs
McsReturn ==
  /\ pc = "outer"
  /\ Len(visited) = Len(events)
  /\ pc' = "done"
  /\ UNCHANGED <<bufVars, syncVars, fuzzVars, dagVars, round, invoked>>
  /\ UNCHANGED <<klass, visited, yielded, running, completed,
                 bootstraps, interpolated_time, mcs, lastQuery, controlResult,
                 confirmedPrunable>>

(***************************************************************************)
(* ReplaySyncCallback.get_deterministic_value                              *)
(***************************************************************************)
OperationNames == {"gettimeofday", "getpid"}

\* What a call gives back: the exception raised ("" for none) and the value
\* returned (<<>> for none)
Returned(v) == [raised |-> "", value |-> <<v>>]
Raised(exc) == [raised |-> exc, value |-> <<>>]

\* Variant of get_deterministic_value that answers every operation name
get_deterministic_value_any(name) == Returned(get_interpolated_time)

\* ReplaySyncCallback.get_deterministic_value
get_deterministic_value(name) ==
  IF name = "gettimeofday"
  THEN Returned(get_interpolated_time)
  ELSE Raised("ValueError")

\* RecordingSyncCallback.get_deterministic_value; now is SyncTime.now().
\* The log_input_event call is commented out in the source.
recording_get_deterministic_value(name, now) ==
  IF name = "gettimeofday"
  THEN Returned(now)
  ELSE Raised("ValueError")

\* A controller of the bootstrapped simulation asks for a value.
GetDeterministicValue ==
  /\ pc \in {"iterate", "running", "outer"}
  /\ \E name \in OperationNames :
       LET r == get_deterministic_value(name)
       IN  IF r.raised = ""
           THEN lastQuery' =
                  << [value |-> r.value[1],
                      prev |-> IF lastQuery = <<>> THEN <<>>
                               ELSE <<lastQuery[1].value>>,
                      landmark |-> Landmark] >>
           ELSE UNCHANGED lastQuery
  /\ UNCHANGED <<bufVars, syncVars, fuzzVars, dagVars, round, invoked>>
  /\ UNCHANGED <<klass, pc, visited, yielded, running,
                 completed, bootstraps, interpolated_time, mcs, controlResult,
                 confirmedPrunable>>

(***************************************************************************)
(* OpenFlowBuffer (sts.openflow_buffer): the table of buffered entries     *)
(***************************************************************************)
MaxMessages == 3
Conns == {1, 2}
\* The OpenFlow messages: each message read from or written to a connection
\* is an object of its own, named by its number.
Messages == 1..MaxMessages
NewMessages == {Len(issued) + 1}

\* The handle of a new entry; its id is the next unused one.
PendingEntry(kind, dpid, controller_id, message, conn) ==
  [id |-> Len(issued) + 1, kind |-> kind, dpid |-> dpid,
   controller_id |-> controller_id, msg |-> message, conn |-> conn]

Remove(seq, h) == SelectSeq(seq, LAMBDA x : x # h)

Buffered(h) == h \in Range(pending_receives) \cup Range(pending_sends)

Bump(f, id) == [f EXCEPT ![id] = @ + 1]

(***************************************************************************)
(* DeferredOFConnection                                                    *)
(***************************************************************************)
\* DeferredOFConnection.set_message_handler
set_message_handler(conn) ==
  /\ true_on_message_handler[conn] = "None"
  /\ true_on_message_handler' =
       [true_on_message_handler EXCEPT ![conn] = "on_message_received"]
  /\ UNCHANGED <<pending_receives, pending_sends, issued, delivered,
                 transport, releases, drops, lastOp>>
  /\ UNCHANGED <<dagVars, replayVars, syncVars, fuzzVars>>

\* Variant of insert_pending_receipt that hands the message to the switch
insert_pending_receipt_direct(conn, ofp_msg) ==
  /\ true_on_message_handler[conn] # "None"
  /\ Len(issued) < MaxMessages
  /\ LET h == PendingEntry("receive", conn, conn, ofp_msg, conn)
     IN  /\ issued' = Append(issued, h)
         /\ releases' = releases @@ (h.id :> 0)
         /\ drops' = drops @@ (h.id :> 0)
  /\ delivered' = Append(delivered, [conn |-> conn, msg |-> ofp_msg])
  /\ UNCHANGED <<true_on_message_handler, pending_receives, pending_sends,
                 transport, lastOp>>
  /\ UNCHANGED <<dagVars, replayVars, syncVars, fuzzVars>>

\* DeferredOFConnection.insert_pending_receipt, the connection's
\* on_message_received: the io worker hands over a received message
insert_pending_receipt(conn, ofp_msg) ==
  /\ true_on_message_handler[conn] # "None"
  /\ Len(issued) < MaxMessages
  /\ LET h == PendingEntry("receive", conn, conn, ofp_msg, conn)
     IN  /\ pending_receives' = Append(pending_receives, h)
         /\ issued' = Append(issued, h)
         /\ releases' = releases @@ (h.id :> 0)
         /\ drops' = drops @@ (h.id :> 0)
  /\ UNCHANGED <<true_on_message_handler, pending_sends, delivered,
                 transport, lastOp>>
  /\ UNCHANGED <<dagVars, replayVars, syncVars, fuzzVars>>

\* DeferredOFConnection.send: the switch sends on the connection
send(conn, ofp_message) ==
  /\ true_on_message_handler[conn] # "None"
  /\ Len(issued) < MaxMessages
  /\ LET h == PendingEntry("send", conn, conn, ofp_message, conn)
     IN  /\ pending_sends' = Append(pending_sends, h)
         /\ issued' = Append(issued, h)
         /\ releases' = releases @@ (h.id :> 0)
         /\ drops' = drops @@ (h.id :> 0)
  /\ UNCHANGED <<true_on_message_handler, pending_receives, delivered,
                 transport, lastOp>>
  /\ UNCHANGED <<dagVars, replayVars, syncVars, fuzzVars>>

\* Variant of allow_message_receipt that feeds on_message_received again
allow_message_receipt_rebuffer(conn, ofp_message) == delivered

\* DeferredOFConnection.allow_message_receipt: the calls of the true handler
\* after self.true_on_message_handler(self, ofp_message)
allow_message_receipt(conn, ofp_message) ==
  Append(delivered, [conn |-> conn, msg |-> ofp_message])

\* DeferredOFConnection.allow_message_send: the transport after
\* super(DeferredOFConnection, self).send(ofp_message)
allow_message_send(conn, ofp_message) ==
  Append(transport, [conn |-> conn, msg |-> ofp_message])

\* OpenFlowBuffer.schedule(h), called by the control flow
\* (god_scheduler.schedule, FuzzSoftwareSwitch.process_delayed_command)
schedule(h) ==
  /\ IF Buffered(h)
     THEN /\ pending_receives' = Remove(pending_receives, h)
          /\ pending_sends' = Remove(pending_sends, h)
          /\ releases' = Bump(releases, h.id)
          /\ IF h.kind = "receive"
             THEN /\ delivered' = allow_message_receipt(h.conn, h.msg)
                  /\ UNCHANGED transport
             ELSE /\ transport' = allow_message_send(h.conn, h.msg)
                  /\ UNCHANGED delivered
          /\ lastOp' = <<[op |-> "schedule", id |-> h.id, result |-> "ok"]>>
     ELSE /\ lastOp' =
               <<[op |-> "schedule", id |-> h.id, result |-> "NotFound"]>>
          /\ UNCHANGED <<pending_receives, pending_sends, releases,
                         delivered, transport>>
  /\ UNCHANGED <<true_on_message_handler, issued, drops>>
  /\ UNCHANGED <<dagVars, replayVars, syncVars, fuzzVars>>

\* OpenFlowBuffer.drop(h)
drop(h) ==
  /\ IF Buffered(h)
     THEN /\ pending_receives' = Remove(pending_receives, h)
          /\ pending_sends' = Remove(pending_sends, h)
          /\ drops' = Bump(drops, h.id)
          /\ lastOp' = <<[op |-> "drop", id |-> h.id, result |-> "ok"]>>
     ELSE /\ lastOp' = <<[op |-> "drop", id |-> h.id, result |-> "NotFound"]>>
          /\ UNCHANGED <<pending_receives, pending_sends, drops>>
  /\ UNCHANGED <<true_on_message_handler, issued, delivered, transport,
                 releases>>
  /\ UNCHANGED <<dagVars, replayVars, syncVars, fuzzVars>>

InitBuffer ==
  /\ iterator = <<>>
  /\ true_on_message_handler = [c \in Conns |-> "None"]
  /\ pending_receives = <<>>
  /\ pending_sends = <<>>
  /\ issued = <<>>
  /\ delivered = <<>>
  /\ transport = <<>>
  /\ releases = <<>>
  /\ drops = <<>>
  /\ lastOp = <<>>

(***************************************************************************)
(* ReplaySyncCallback: pending_state_changes is a collections.Counter      *)
(***************************************************************************)
MaxCalls == 4

\* PendingStateChange(controller.uuid, time, fingerprint, name, value)
PendingStateChange(uuid, time, fingerprint, name, value) ==
  [controller_id |-> uuid, time |-> time, fingerprint |-> fingerprint,
   name |-> name, value |-> value]

\* The state changes the controllers report
StateChanges ==
  {PendingStateChange("c1", SyncTime(1, 0), "fp", "role", v) :
     v \in {"master", "slave"}}

\* Counter.__getitem__: a missing key counts 0 and is not inserted
CounterGet(c, k) == IF k \in DOMAIN c THEN c[k] ELSE 0

\* Counter.__setitem__
CounterSet(c, k, v) == [x \in DOMAIN c \cup {k} |-> IF x = k THEN v ELSE c[x]]

\* Counter.__delitem__
CounterDel(c, k) == [x \in DOMAIN c \ {k} |-> c[x]]

\* ReplaySyncCallback.state_change_pending: the value returned
state_change_pending(pending_state_change) ==
  CounterGet(pending_state_changes, pending_state_change) > 0

\* Variant of gc_pending_state_change that keeps the entry
gc_pending_state_change_keep(pending_state_change) ==
  CounterSet(pending_state_changes, pending_state_change,
             CounterGet(pending_state_changes, pending_state_change) - 1)

\* ReplaySyncCallback.gc_pending_state_change: the Counter afterwards
gc_pending_state_change(pending_state_change) ==
  LET decremented ==
        CounterSet(pending_state_changes, pending_state_change,
                   CounterGet(pending_state_changes, pending_state_change) - 1)
  IN  IF decremented[pending_state_change] <= 0
      THEN CounterDel(decremented, pending_state_change)
      ELSE decremented

\* ReplaySyncCallback.state_change: the Counter afterwards
state_change(uuid, time, fingerprint, name, value) ==
  LET pending_state_change ==
        PendingStateChange(uuid, time, fingerprint, name, value)
  IN  CounterSet(pending_state_changes, pending_state_change,
                 CounterGet(pending_state_changes, pending_state_change) + 1)

\* A controller reports a state change
StateChange ==
  \E k \in StateChanges :
    /\ Len(calls[k]) < MaxCalls
    /\ pending_state_changes' =
         state_change(k.controller_id, k.time, k.fingerprint, k.name, k.value)
    /\ calls' = [calls EXCEPT ![k] = Append(@, "s")]
    /\ UNCHANGED <<lastPending, lastReturn>>
    /\ UNCHANGED <<dagVars, replayVars, bufVars, fuzzVars>>

\* The replay driver garbage collects a state change
GcPendingStateChange ==
  \E k \in StateChanges :
    /\ Len(calls[k]) < MaxCalls
    /\ pending_state_changes' = gc_pending_state_change(k)
    /\ calls' = [calls EXCEPT ![k] = Append(@, "g")]
    /\ UNCHANGED <<lastPending, lastReturn>>
    /\ UNCHANGED <<dagVars, replayVars, bufVars, fuzzVars>>

\* Variant of StateChangePending that reads pending_state_changes as a
\* defaultdict(int) would: the key asked for is stored
StateChangePendingInserts ==
  \E k \in StateChanges :
    /\ lastPending' = <<[key |-> k, result |-> state_change_pending(k)]>>
    /\ pending_state_changes' =
         CounterSet(pending_state_changes, k,
                    CounterGet(pending_state_changes, k))
    /\ UNCHANGED <<calls, lastReturn>>
    /\ UNCHANGED <<dagVars, replayVars, bufVars, fuzzVars>>

\* The replay driver asks whether a state change has been observed
StateChangePending ==
  \E k \in StateChanges :
    /\ lastPending' = <<[key |-> k, result |-> state_change_pending(k)]>>
    /\ UNCHANGED <<pending_state_changes, calls, lastReturn>>
    /\ UNCHANGED <<dagVars, replayVars, bufVars, fuzzVars>>

\* A controller asks the replay callback for a deterministic value
ReplayGetDeterministicValue ==
  \E name \in OperationNames :
    /\ lastReturn' =
         <<[callback |-> "replay", name |-> name,
            outcome |-> get_deterministic_value(name)]>>
    /\ UNCHANGED <<pending_state_changes, calls, lastPending>>
    /\ UNCHANGED <<dagVars, replayVars, bufVars, fuzzVars>>

\* A controller asks the recording callback for a deterministic value
RecordingGetDeterministicValue ==
  \E name \in OperationNames, now \in SyncTimes :
    /\ lastReturn' =
         <<[callback |-> "recording", name |-> name,
            outcome |-> recording_get_deterministic_value(name, now)]>>
    /\ UNCHANGED <<pending_state_changes, calls, lastPending>>
    /\ UNCHANGED <<dagVars, replayVars, bufVars, fuzzVars>>

InitSync ==
  /\ pending_state_changes = <<>>
  /\ calls = [k \in StateChanges |-> <<>>]
  /\ lastPending = <<>>
  /\ lastReturn = <<>>

(***************************************************************************)
(* Fuzzer: construction                                                    *)
(***************************************************************************)
MaxSteps == 2
MaxDpEvents == 3
default_check_interval == 35
default_trace_interval == 10
sys_maxint == 2147483647

\* Probabilities and the values of random.random(), in tenths
Draws == {1, 6}

\* The values of random.random() to tell apart when it is compared with
\* rate: every value is below 1.0 and none is below 0.0
DrawsAt(rate) == IF rate \in {0, 10} THEN {1} ELSE Draws

RateNames ==
  {"dataplane_delay_rate", "dataplane_drop_rate", "controlplane_block_rate",
   "controlplane_unblock_rate", "ofp_message_receipt_rate",
   "switch_failure_rate", "switch_recovery_rate", "link_failure_rate",
   "link_recovery_rate", "traffic_generation_rate", "controller_crash_rate",
   "controller_recovery_rate"}

\* A parameters module in which every rate is 0.0
NoFaults == [n \in RateNames |-> 0]

\* The arguments of Fuzzer.__init__, and of the simulation its
\* dataplane_trace and the kinds of event its network produces during the
\* run; the defaults are those of the signature.
FuzzerArgs(rates, ci, ti, n, logger, trace, net) ==
  [params |-> rates @@ NoFaults, check_interval |-> ci, trace_interval |-> ti,
   steps |-> n, input_logger |-> logger, dataplane_trace |-> trace,
   network |-> net, found |-> TRUE, defined |-> RateNames]

Defaults(rates, net) ==
  FuzzerArgs(rates, default_check_interval, default_trace_interval, MaxSteps,
             "logger", "None", net)

\* A construction whose fuzzer_params names a module that cannot be imported
ModuleAbsent == [Defaults(NoFaults, {}) EXCEPT !.found = FALSE]

\* A construction whose parameters module defines no rate at all
ModuleEmpty == [Defaults(NoFaults, {"dataplane"}) EXCEPT !.defined = {}]

\* The constructions explored
Constructions ==
  { Defaults("dataplane_delay_rate" :> 5 @@ "dataplane_drop_rate" :> 5,
             {"dataplane"}),
    Defaults("dataplane_delay_rate" :> 0 @@ "dataplane_drop_rate" :> 10,
             {"dataplane"}),
    Defaults("dataplane_delay_rate" :> 10 @@ "dataplane_drop_rate" :> 10,
             {"dataplane"}),
    Defaults("switch_failure_rate" :> 5 @@ "switch_recovery_rate" :> 5
               @@ "link_failure_rate" :> 5 @@ "link_recovery_rate" :> 5, {}),
    Defaults("controller_crash_rate" :> 5 @@ "controller_recovery_rate" :> 5
               @@ "traffic_generation_rate" :> 5, {}),
    Defaults("ofp_message_receipt_rate" :> 5, {"control"}),
    Defaults("controlplane_block_rate" :> 5
               @@ "controlplane_unblock_rate" :> 5, {}),
    FuzzerArgs("dataplane_drop_rate" :> 10 @@ "traffic_generation_rate" :> 10
                 @@ "controller_crash_rate" :> 5,
               default_check_interval, default_trace_interval, 1, "None",
               "None", {"dataplane"}),
    FuzzerArgs("traffic_generation_rate" :> 10, 1, 1, MaxSteps, "logger",
               "trace", {}),
    FuzzerArgs(NoFaults, 2, 2, 0, "logger", "trace",
               {"dataplane", "control"}),
    ModuleAbsent, ModuleEmpty }

\* The simulated network: two switches joined by one link, one controller
\* with a connection from each switch, a host with an interface and a host
\* without one
Switches == {1, 2}
Links == {1}
Controllers == {1}
Hosts == {1, 2}
interfaces(host) == IF host = 1 THEN 1 ELSE 0

\* Fuzzer._load_fuzzer_params: the module is imported, and nothing in it is
\* looked at; a module that cannot be imported raises IOError
load_fuzzer_params(c) == IF c.found THEN "" ELSE "IOError"

\* Fuzzer.__init__
InitFuzzer ==
  /\ \E c \in Constructions :
       /\ params = c.params
       /\ defined_rates = c.defined
       /\ raised = load_fuzzer_params(c)
       /\ fpc = (IF load_fuzzer_params(c) = "" THEN "constructed"
                 ELSE "error")
       /\ check_interval = c.check_interval
       /\ trace_interval = c.trace_interval
       /\ steps = c.steps
       /\ input_logger = c.input_logger
       /\ dataplane_trace = c.dataplane_trace
       /\ network = c.network
  /\ logical_time = 0
  /\ end_time = 0
  /\ thread_alive = FALSE
  /\ round_calls = <<>>
  /\ queued_dataplane_events = <<>>
  /\ dp_events = <<>>
  /\ live_switches = Switches
  /\ live_links = Links
  /\ live_controllers = Controllers
  /\ blocked_controller_connections = {}
  /\ echo_requests = 0
  /\ input_log = <<>>
  /\ closed = 0

(***************************************************************************)
(* Fuzzer: the calls a step makes and what they leave in the log           *)
(***************************************************************************)
RECURSIVE SortedSeq(_)
\* The members of a set of numbers in iteration order
SortedSeq(S) ==
  IF S = {} THEN <<>>
  ELSE LET m == CHOOSE x \in S : \A y \in S : x <= y
       IN  <<m>> \o SortedSeq(S \ {m})

RECURSIVE Flatten(_)
Flatten(ss) == IF ss = <<>> THEN <<>> ELSE Head(ss) \o Flatten(Tail(ss))

\* A call of a collaborator's method on the entity named arg
Call(name, arg) == [call |-> name, klass |-> "", arg |-> arg]

\* A call self._log_input_event(klass=..., ...) naming the entity arg
LogCall(kind, arg) == [call |-> "_log_input_event", klass |-> kind,
                       arg |-> arg]

\* The entry of a step of the round
Enter(step) == <<Call(step, 0)>>

\* Fuzzer._log_input_event over the calls cs: the logger's records afterwards
log_input_event(log, cs) ==
  IF input_logger = "None" THEN log
  ELSE LET ls == SelectSeq(cs, LAMBDA c : c.call = "_log_input_event")
       IN  log \o [i \in 1..Len(ls) |-> [klass |-> ls[i].klass,
                                         arg |-> ls[i].arg]]

\* The calls cs are made, in order
Perform(cs) ==
  /\ round_calls' = round_calls \o cs
  /\ input_log' = log_input_event(input_log, cs)

\* The entities of S selected by their draws
Selected(S, draw, rate) == {x \in S : draw[x] < rate}

(***************************************************************************)
(* Fuzzer.simulate and Fuzzer.loop                                         *)
(***************************************************************************)
\* Fuzzer.simulate up to the while of loop: simulation.bootstrap() connects
\* the switches; end_time is set
FuzzerSimulate ==
  /\ fpc = "constructed"
  /\ bootstraps' = bootstraps + 1
  /\ true_on_message_handler' = [c \in Conns |-> "on_message_received"]
  /\ end_time' = IF steps # 0 THEN logical_time + steps ELSE sys_maxint
  /\ fpc' = "loop"
  /\ UNCHANGED <<dagVars, syncVars, entVars, fuzzConfig, simVars, logVars>>
  /\ UNCHANGED <<drainVars, dbgVars>>
  /\ UNCHANGED <<logical_time, thread_alive, round_calls, raised>>
  /\ UNCHANGED <<pending_receives, pending_sends, issued, delivered,
                 transport, releases, drops, lastOp>>
  /\ UNCHANGED <<klass, pc, visited, yielded, running, completed,
                 interpolated_time, mcs, lastQuery, controlResult,
                 confirmedPrunable, round, invoked>>

\* Fuzzer.simulate: simulation.bootstrap() raises. The call stands before
\* loop and its try: the exception leaves simulate at once.
FuzzerBootstrapRaises ==
  /\ fpc = "constructed"
  /\ bootstraps' = bootstraps + 1
  /\ raised' = "BootstrapError"
  /\ fpc' = "error"
  /\ UNCHANGED <<dagVars, bufVars, syncVars, entVars, fuzzConfig, simVars, logVars>>
  /\ UNCHANGED <<drainVars, dbgVars>>
  /\ UNCHANGED <<logical_time, end_time, thread_alive, round_calls>>
  /\ UNCHANGED <<klass, pc, visited, yielded, running, completed,
                 interpolated_time, mcs, lastQuery, controlResult,
                 confirmedPrunable, round, invoked>>

\* while self.logical_time < end_time: self.logical_time += 1
RoundBegin ==
  /\ fpc = "loop"
  /\ logical_time < end_time
  /\ logical_time < MaxSteps
  /\ logical_time' = logical_time + 1
  /\ fpc' = "check_dataplane"
  /\ UNCHANGED <<dagVars, replayVars, bufVars, syncVars, entVars, fuzzConfig>>
  /\ UNCHANGED <<drainVars, dbgVars>>
  /\ UNCHANGED <<end_time, thread_alive, round_calls, raised, simVars,
                 logVars>>

\* finally: if self._input_logger is not None: close(self.simulation)
close(n) == IF input_logger = "None" THEN n ELSE n + 1

\* The while condition fails: the finally clause runs and loop returns
LoopExit ==
  /\ fpc = "loop"
  /\ ~(logical_time < end_time)
  /\ closed' = close(closed)
  /\ fpc' = "done"
  /\ UNCHANGED <<dagVars, replayVars, bufVars, syncVars, entVars, fuzzConfig>>
  /\ UNCHANGED <<drainVars, dbgVars>>
  /\ UNCHANGED <<logical_time, end_time, thread_alive, round_calls, raised,
                 simVars, input_log>>

\* time.sleep(self.delay): the round is over
Sleep ==
  /\ fpc = "sleep"
  /\ round_calls' = <<>>
  /\ fpc' = "loop"
  /\ UNCHANGED <<dagVars, replayVars, bufVars, syncVars, entVars, fuzzConfig>>
  /\ UNCHANGED <<drainVars, dbgVars>>
  /\ UNCHANGED <<logical_time, end_time, thread_alive, raised, simVars,
                 logVars>>

\* Between two rounds the network queues a dataplane event at the patch
\* panel; ok is what topology.ok_to_send says of it
DataplaneEventQueued ==
  /\ fpc = "loop"
  /\ "dataplane" \in network
  /\ Len(dp_events) < MaxDpEvents
  /\ \E ok \in BOOLEAN :
       LET dp_event == [fingerprint |-> Len(dp_events) + 1, ok |-> ok]
       IN  /\ dp_events' = Append(dp_events, dp_event)
           /\ queued_dataplane_events' =
                Append(queued_dataplane_events, dp_event)
  /\ UNCHANGED <<dagVars, replayVars, bufVars, syncVars, entVars, fuzzConfig>>
  /\ UNCHANGED <<drainVars, dbgVars>>
  /\ UNCHANGED <<fuzzRun, logVars, live_switches, live_links,
                 live_controllers, blocked_controller_connections,
                 echo_requests>>

\* Between two rounds a connection receives a message from its controller
MessageReceived ==
  /\ fpc = "loop"
  /\ "control" \in network
  /\ \E c \in Conns, m \in NewMessages : insert_pending_receipt(c, m)

(***************************************************************************)
(* Fuzzer.check_dataplane                                                  *)
(***************************************************************************)
topology_ok_to_send(dp_event) == dp_event.ok

\* Variant of dp_calls that drops without a log record
dp_calls_unlogged(dp_event, decision) ==
  CASE decision = "delay" ->
         <<Call("delay_dp_event", dp_event.fingerprint)>>
    [] decision = "drop" ->
         <<Call("drop_dp_event", dp_event.fingerprint)>>
    [] decision = "permit" ->
         <<Call("permit_dp_event", dp_event.fingerprint),
           LogCall("DataplanePermit", dp_event.fingerprint)>>
    [] OTHER -> <<>>

\* Variant of dp_decision that tries drop before delay
dp_decision_drop_first(dp_event, r1, r2) ==
  IF r2 < params.dataplane_drop_rate THEN "drop"
  ELSE IF r1 < params.dataplane_delay_rate THEN "delay"
  ELSE IF topology_ok_to_send(dp_event) THEN "permit"
  ELSE "none"

\* The branch check_dataplane takes for dp_event; r1 and r2 are the values
\* of the first and, if it is made, the second call of self.random.random()
dp_decision(dp_event, r1, r2) ==
  IF r1 < params.dataplane_delay_rate THEN "delay"
  ELSE IF r2 < params.dataplane_drop_rate THEN "drop"
  ELSE IF topology_ok_to_send(dp_event) THEN "permit"
  ELSE "none"

\* The calls of the branch
dp_calls(dp_event, decision) ==
  CASE decision = "delay" ->
         <<Call("delay_dp_event", dp_event.fingerprint)>>
    [] decision = "drop" ->
         <<Call("drop_dp_event", dp_event.fingerprint),
           LogCall("DataplaneDrop", dp_event.fingerprint)>>
    [] decision = "permit" ->
         <<Call("permit_dp_event", dp_event.fingerprint),
           LogCall("DataplanePermit", dp_event.fingerprint)>>
    [] OTHER -> <<>>

\* for dp_event in self.simulation.patch_panel.queued_dataplane_events: ...
\* A dropped or permitted event leaves the patch panel's queue.
\* The first read of self.params.dataplane_delay_rate finds no such
\* attribute: AttributeError leaves loop through the finally clause.
CheckDataplane ==
  /\ fpc = "check_dataplane"
  /\ IF queued_dataplane_events # <<>>
          /\ "dataplane_delay_rate" \notin defined_rates
     THEN /\ round_calls' = round_calls \o Enter("check_dataplane")
          /\ raised' = "AttributeError"
          /\ closed' = close(closed)
          /\ fpc' = "error"
          /\ UNCHANGED <<input_log, queued_dataplane_events>>
     ELSE /\ LET q == queued_dataplane_events
                 fps == {q[i].fingerprint : i \in 1..Len(q)}
             IN  \E r1 \in [fps -> DrawsAt(params.dataplane_delay_rate)],
                      r2 \in [fps -> DrawsAt(params.dataplane_drop_rate)] :
                   LET decision(e) ==
                         dp_decision(e, r1[e.fingerprint], r2[e.fingerprint])
                   IN  /\ Perform(Enter("check_dataplane") \o
                             Flatten([i \in 1..Len(q) |->
                                        dp_calls(q[i], decision(q[i]))]))
                       /\ queued_dataplane_events' =
                            SelectSeq(q, LAMBDA e :
                                           decision(e) \in {"delay", "none"})
          /\ fpc' = "check_tcp_connections"
          /\ UNCHANGED <<raised, closed>>
  /\ UNCHANGED <<dagVars, replayVars, bufVars, syncVars, entVars, fuzzConfig>>
  /\ UNCHANGED <<drainVars, dbgVars>>
  /\ UNCHANGED <<logical_time, end_time, thread_alive,
                 dp_events, live_switches, live_links, live_controllers,
                 blocked_controller_connections, echo_requests>>

(***************************************************************************)
(* Fuzzer.check_tcp_connections                                            *)
(***************************************************************************)
\* The (switch, connection) pairs of the topology, named by the switch
unblocked_controller_connections == Switches \ blocked_controller_connections

\* The first read of self.params.controlplane_block_rate or
\* controlplane_unblock_rate finds no such attribute
tcp_rate_missing ==
  \/ /\ unblocked_controller_connections # {}
     /\ "controlplane_block_rate" \notin defined_rates
  \/ /\ blocked_controller_connections # {}
     /\ "controlplane_unblock_rate" \notin defined_rates

\* for ... in unblocked_controller_connections: if random() < block_rate:
\*   self.topology.block_connection(connection)
\* and the same for the blocked ones. The Fuzzer has no attribute topology:
\* the first connection chosen raises AttributeError, which leaves
\* trigger_events and loop through the finally clause.
CheckTcpConnections ==
  /\ fpc = "check_tcp_connections"
  /\ round_calls' = round_calls \o Enter("check_tcp_connections")
  /\ \E r1 \in [Switches -> DrawsAt(params.controlplane_block_rate)],
        r2 \in [Switches -> DrawsAt(params.controlplane_unblock_rate)] :
       LET chosen ==
             Selected(unblocked_controller_connections, r1,
                      params.controlplane_block_rate)
             \cup Selected(blocked_controller_connections, r2,
                           params.controlplane_unblock_rate)
       IN  IF chosen # {} \/ tcp_rate_missing
           THEN /\ raised' = "AttributeError"
                /\ closed' = close(closed)
                /\ fpc' = "error"
           ELSE /\ fpc' = "check_message_receipts"
                /\ UNCHANGED <<raised, closed>>
  /\ UNCHANGED <<dagVars, replayVars, bufVars, syncVars, entVars, fuzzConfig>>
  /\ UNCHANGED <<drainVars, dbgVars>>
  /\ UNCHANGED <<logical_time, end_time, thread_alive, input_log, simVars>>

(***************************************************************************)
(* Fuzzer.check_message_receipts                                           *)
(***************************************************************************)
RECURSIVE Bumps(_, _)
\* releases after the entries of hs have been released
Bumps(f, hs) == IF hs = <<>> THEN f ELSE Bumps(Bump(f, Head(hs).id), Tail(hs))

\* Variant of receipts_left in which schedule leaves the receipt buffered
receipts_left_all(pending, scheduled) == pending

\* The buffered receipts after schedule was called on those of scheduled
receipts_left(pending, scheduled) ==
  SelectSeq(pending, LAMBDA h : h \notin Range(scheduled))

\* for pending_receipt in god_scheduler.pending_receives():
\*   if random() < ofp_message_receipt_rate: schedule(pending_receipt); log
CheckMessageReceipts ==
  /\ fpc = "check_message_receipts"
  /\ \E r \in [{h.id : h \in Range(pending_receives)} ->
              DrawsAt(params.ofp_message_receipt_rate)] :
       LET chosen(h) == r[h.id] < params.ofp_message_receipt_rate
           scheduled == SelectSeq(pending_receives, chosen)
       IN  /\ Perform(Enter("check_message_receipts") \o
                 Flatten([i \in 1..Len(scheduled) |->
                   <<Call("schedule", scheduled[i].id),
                     LogCall("ControlMessageReceive", scheduled[i].id)>>]))
           /\ pending_receives' = receipts_left(pending_receives, scheduled)
           /\ delivered' =
                delivered \o [i \in 1..Len(scheduled) |->
                               [conn |-> scheduled[i].conn,
                                msg |-> scheduled[i].msg]]
           /\ releases' = Bumps(releases, scheduled)
           /\ lastOp' =
                IF scheduled = <<>> THEN lastOp
                ELSE <<[op |-> "schedule",
                        id |-> scheduled[Len(scheduled)].id,
                        result |-> "ok"]>>
  /\ fpc' = "check_switch_crashes"
  /\ UNCHANGED <<dagVars, replayVars, syncVars, entVars, fuzzConfig>>
  /\ UNCHANGED <<drainVars, dbgVars>>
  /\ UNCHANGED <<true_on_message_handler, pending_sends, issued, transport,
                 drops>>
  /\ UNCHANGED <<logical_time, end_time, thread_alive, raised, closed,
                 simVars>>

(***************************************************************************)
(* Fuzzer.check_switch_crashes                                             *)
(***************************************************************************)
\* crash_switches: crashed_this_round
crash_switches(r) == Selected(live_switches, r, params.switch_failure_rate)

\* Variant of restart_switches without the test of crashed_this_round
restart_switches_any(crashed_this_round, r) ==
  Selected(Switches \ (live_switches \ crashed_this_round), r,
           params.switch_recovery_rate)

\* restart_switches: the switches of topology.failed_switches, read after
\* the crashes, for which recover_switch is called
restart_switches(crashed_this_round, r) ==
  LET failed_switches == Switches \ (live_switches \ crashed_this_round)
  IN  Selected(failed_switches \ crashed_this_round, r,
               params.switch_recovery_rate)

\* sever_links: cut_this_round
sever_links(r) == Selected(live_links, r, params.link_failure_rate)

\* repair_links: the links for which repair_link is called
repair_links(cut_this_round, r) ==
  LET cut_links == Links \ (live_links \ cut_this_round)
  IN  Selected(cut_links \ cut_this_round, r, params.link_recovery_rate)

\* Variant of CallEach that writes no log record
CallEachUnlogged(name, kind, S) ==
  LET xs == SortedSeq(S)
  IN  [i \in 1..Len(xs) |-> Call(name, xs[i])]

\* A call on each entity of S, in iteration order, each followed by its
\* log record
CallEach(name, kind, S) ==
  LET xs == SortedSeq(S)
  IN  Flatten([i \in 1..Len(xs) |->
                 <<Call(name, xs[i]), LogCall(kind, xs[i])>>])

\* topology.recover_switch: FuzzSoftwareSwitch.recover clears failed when it
\* has connected to a controller that is not down
Recovers(sw) == live_controllers # {}

CheckSwitchCrashes ==
  /\ fpc = "check_switch_crashes"
  /\ \E r1 \in [Switches -> DrawsAt(params.switch_failure_rate)],
        r2 \in [Switches -> DrawsAt(params.switch_recovery_rate)],
        r3 \in [Links -> DrawsAt(params.link_failure_rate)],
        r4 \in [Links -> DrawsAt(params.link_recovery_rate)] :
       LET crashed_this_round == crash_switches(r1)
           restarted == restart_switches(crashed_this_round, r2)
           cut_this_round == sever_links(r3)
           repaired == repair_links(cut_this_round, r4)
       IN  /\ Perform(Enter("check_switch_crashes")
                 \o CallEach("crash_switch", "SwitchFailure",
                             crashed_this_round)
                 \o CallEach("recover_switch", "SwitchRecovery", restarted)
                 \o CallEach("sever_link", "LinkFailure", cut_this_round)
                 \o CallEach("repair_link", "LinkRecovery", repaired))
           /\ live_switches' =
                (live_switches \ crashed_this_round)
                  \cup {sw \in restarted : Recovers(sw)}
           /\ live_links' = (live_links \ cut_this_round) \cup repaired
  /\ fpc' = "fuzz_traffic"
  /\ UNCHANGED <<dagVars, replayVars, bufVars, syncVars, entVars, fuzzConfig>>
  /\ UNCHANGED <<drainVars, dbgVars>>
  /\ UNCHANGED <<logical_time, end_time, thread_alive, raised, closed,
                 queued_dataplane_events, dp_events, live_controllers,
                 blocked_controller_connections, echo_requests>>

(***************************************************************************)
(* Fuzzer.fuzz_traffic and Fuzzer.check_controllers                        *)
(***************************************************************************)
\* if not dataplane_trace: for host in hosts: if random() < rate:
\*   if len(host.interfaces) > 0: generate a packet and log it
FuzzTraffic ==
  /\ fpc = "fuzz_traffic"
  /\ \E r \in [Hosts -> DrawsAt(params.traffic_generation_rate)] :
       LET senders ==
             IF dataplane_trace = "None"
             THEN {host \in Selected(Hosts, r,
                                     params.traffic_generation_rate) :
                     interfaces(host) > 0}
             ELSE {}
       IN  Perform(Enter("fuzz_traffic")
                     \o CallEach("generate", "TrafficInjection", senders))
  /\ fpc' = "check_controllers"
  /\ UNCHANGED <<dagVars, replayVars, bufVars, syncVars, entVars, fuzzConfig>>
  /\ UNCHANGED <<drainVars, dbgVars>>
  /\ UNCHANGED <<logical_time, end_time, thread_alive, raised, closed,
                 simVars>>

\* crash_controllers: crashed_this_round
crash_controllers(r) ==
  Selected(live_controllers, r, params.controller_crash_rate)

\* reboot_controllers: the controllers of down_controllers, read after the
\* crashes, for which start is called
reboot_controllers(crashed_this_round, r) ==
  LET down_controllers ==
        Controllers \ (live_controllers \ crashed_this_round)
  IN  Selected(down_controllers \ crashed_this_round, r,
               params.controller_recovery_rate)

CheckControllers ==
  /\ fpc = "check_controllers"
  /\ \E r1 \in [Controllers -> DrawsAt(params.controller_crash_rate)],
        r2 \in [Controllers -> DrawsAt(params.controller_recovery_rate)] :
       LET crashed_this_round == crash_controllers(r1)
           rebooted == reboot_controllers(crashed_this_round, r2)
       IN  /\ Perform(Enter("check_controllers")
                 \o CallEach("kill", "ControllerCrash", crashed_this_round)
                 \o CallEach("start", "ControllerRecovery", rebooted))
           /\ live_controllers' =
                (live_controllers \ crashed_this_round) \cup rebooted
  /\ fpc' = "maybe_check_correspondence"
  /\ UNCHANGED <<dagVars, replayVars, bufVars, syncVars, entVars, fuzzConfig>>
  /\ UNCHANGED <<drainVars, dbgVars>>
  /\ UNCHANGED <<logical_time, end_time, thread_alive, raised, closed,
                 queued_dataplane_events, dp_events, live_switches,
                 live_links, blocked_controller_connections, echo_requests>>

(***************************************************************************)
(* Fuzzer.maybe_check_correspondence and Fuzzer.maybe_inject_trace_event   *)
(***************************************************************************)
MaxKeepalives == 2

\* if (self.logical_time % self.check_interval) == 0: thread.start();
\* thread_alive is what the first thread.isAlive() returns
MaybeCheckCorrespondence ==
  /\ fpc = "maybe_check_correspondence"
  /\ IF logical_time % check_interval = 0
     THEN /\ round_calls' =
               round_calls \o Enter("maybe_check_correspondence")
                 \o <<Call("check_correspondence", logical_time)>>
          /\ thread_alive' \in BOOLEAN
          /\ fpc' = "correspondence"
     ELSE /\ round_calls' =
               round_calls \o Enter("maybe_check_correspondence")
          /\ fpc' = "maybe_inject_trace_event"
          /\ UNCHANGED thread_alive
  /\ UNCHANGED <<dagVars, replayVars, bufVars, syncVars, entVars, fuzzConfig>>
  /\ UNCHANGED <<drainVars, dbgVars>>
  /\ UNCHANGED <<logical_time, end_time, raised, simVars, logVars>>

\* while thread.isAlive(): an echo request to every live switch, then
\* thread.join(2.0), during which the thread may finish
KeepAlive ==
  /\ fpc = "correspondence"
  /\ thread_alive
  /\ echo_requests < MaxKeepalives
  /\ echo_requests' = echo_requests + 1
  /\ thread_alive' \in BOOLEAN
  /\ UNCHANGED <<dagVars, replayVars, bufVars, syncVars, entVars, fuzzConfig>>
  /\ UNCHANGED <<drainVars, dbgVars>>
  /\ UNCHANGED <<fpc, logical_time, end_time, round_calls, raised, logVars,
                 queued_dataplane_events, dp_events, live_switches,
                 live_links, live_controllers,
                 blocked_controller_connections>>

\* Variant of CorrespondenceJoined that returns without waiting for the thread
CorrespondenceNotJoined ==
  /\ fpc = "correspondence"
  /\ echo_requests' = 0
  /\ fpc' = "maybe_inject_trace_event"
  /\ UNCHANGED <<dagVars, replayVars, bufVars, syncVars, entVars, fuzzConfig>>
  /\ UNCHANGED <<drainVars, dbgVars>>
  /\ UNCHANGED <<logical_time, end_time, thread_alive, round_calls, raised,
                 logVars, queued_dataplane_events, dp_events, live_switches,
                 live_links, live_controllers,
                 blocked_controller_connections>>

\* thread.isAlive() is false: maybe_check_correspondence returns
CorrespondenceJoined ==
  /\ fpc = "correspondence"
  /\ ~thread_alive
  /\ echo_requests' = 0
  /\ fpc' = "maybe_inject_trace_event"
  /\ UNCHANGED <<dagVars, replayVars, bufVars, syncVars, entVars, fuzzConfig>>
  /\ UNCHANGED <<drainVars, dbgVars>>
  /\ UNCHANGED <<logical_time, end_time, thread_alive, round_calls, raised,
                 logVars, queued_dataplane_events, dp_events, live_switches,
                 live_links, live_controllers,
                 blocked_controller_connections>>

\* if dataplane_trace and (logical_time % trace_interval) == 0:
\*   inject_trace_event(); log TrafficInjection
MaybeInjectTraceEvent ==
  /\ fpc = "maybe_inject_trace_event"
  /\ Perform(Enter("maybe_inject_trace_event") \o
       (IF dataplane_trace # "None" /\ logical_time % trace_interval = 0
        THEN <<Call("inject_trace_event", logical_time),
               LogCall("TrafficInjection", logical_time)>>
        ELSE <<>>))
  /\ fpc' = "sleep"
  /\ UNCHANGED <<dagVars, replayVars, bufVars, syncVars, entVars, fuzzConfig>>
  /\ UNCHANGED <<drainVars, dbgVars>>
  /\ UNCHANGED <<logical_time, end_time, thread_alive, raised, closed,
                 simVars>>

(***************************************************************************)
(* Interactive: the operator answers the prompts of every round            *)
(***************************************************************************)
MaxFeeds == 1

\* The sessions explored: the logger, the simulation's dataplane_trace and
\* the kinds of event its network produces
Sessions ==
  { [input_logger |-> "logger", dataplane_trace |-> "trace",
     network |-> {"control"}],
    [input_logger |-> "logger", dataplane_trace |-> "None",
     network |-> {"dataplane"}],
    [input_logger |-> "None", dataplane_trace |-> "trace",
     network |-> {"control"}] }

\* Interactive.__init__
InitInteractive ==
  /\ params = NoFaults
  /\ defined_rates = RateNames
  /\ check_interval = default_check_interval
  /\ trace_interval = default_trace_interval
  /\ steps = 0
  /\ \E c \in Sessions :
       /\ input_logger = c.input_logger
       /\ dataplane_trace = c.dataplane_trace
       /\ network = c.network
  /\ logical_time = 0
  /\ fpc = "i_constructed"
  /\ end_time = 0
  /\ thread_alive = FALSE
  /\ round_calls = <<>>
  /\ raised = ""
  /\ queued_dataplane_events = <<>>
  /\ dp_events = <<>>
  /\ live_switches = Switches
  /\ live_links = Links
  /\ live_controllers = Controllers
  /\ blocked_controller_connections = {}
  /\ echo_requests = 0
  /\ input_log = <<>>
  /\ closed = 0

\* Interactive.simulate up to the while of loop
InteractiveSimulate ==
  /\ fpc = "i_constructed"
  /\ bootstraps' = bootstraps + 1
  /\ true_on_message_handler' = [c \in Conns |-> "on_message_received"]
  /\ fpc' = "i_sleep"
  /\ UNCHANGED <<dagVars, syncVars, entVars, fuzzConfig, simVars, logVars>>
  /\ UNCHANGED <<drainVars, dbgVars>>
  /\ UNCHANGED <<logical_time, end_time, thread_alive, round_calls, raised>>
  /\ UNCHANGED <<pending_receives, pending_sends, issued, delivered,
                 transport, releases, drops, lastOp>>
  /\ UNCHANGED <<klass, pc, visited, yielded, running, completed,
                 interpolated_time, mcs, lastQuery, controlResult,
                 confirmedPrunable, round, invoked>>

\* time.sleep(0.05); self.logical_time += 1
InteractiveRoundBegin ==
  /\ fpc = "i_sleep"
  /\ logical_time < MaxSteps
  /\ logical_time' = logical_time + 1
  /\ round_calls' = <<>>
  /\ fpc' = "i_invariant_check_prompt"
  /\ UNCHANGED <<dagVars, replayVars, bufVars, syncVars, entVars, fuzzConfig>>
  /\ UNCHANGED <<drainVars, dbgVars>>
  /\ UNCHANGED <<end_time, thread_alive, raised, simVars, logVars>>

\* During the sleep the network queues a dataplane event at the patch panel
InteractiveDataplaneEventQueued ==
  /\ fpc = "i_sleep"
  /\ "dataplane" \in network
  /\ Len(dp_events) < MaxDpEvents
  /\ \E ok \in BOOLEAN :
       LET dp_event == [fingerprint |-> Len(dp_events) + 1, ok |-> ok]
       IN  /\ dp_events' = Append(dp_events, dp_event)
           /\ queued_dataplane_events' =
                Append(queued_dataplane_events, dp_event)
  /\ UNCHANGED <<dagVars, replayVars, bufVars, syncVars, entVars, fuzzConfig>>
  /\ UNCHANGED <<drainVars, dbgVars>>
  /\ UNCHANGED <<fuzzRun, logVars, live_switches, live_links,
                 live_controllers, blocked_controller_connections,
                 echo_requests>>

\* During the sleep a connection receives a message from its controller
InteractiveMessageReceived ==
  /\ fpc = "i_sleep"
  /\ "control" \in network
  /\ \E c \in Conns, m \in NewMessages : insert_pending_receipt(c, m)

\* The method of the invariant checker the operator's second answer names
invariant_check(answer) ==
  CASE answer = "l" -> <<Call("check_loops", 0)>>
    [] answer = "b" -> <<Call("check_blackholes", 0)>>
    [] answer = "r" -> <<Call("check_routing_consistency", 0)>>
    [] answer = "c" -> <<Call("check_connectivity", 0)>>
    [] answer = "o" -> <<Call("check_correspondence", 0)>>
    [] OTHER -> <<>>

\* Interactive.invariant_check_prompt; the answers are lower-cased
InvariantCheckPrompt ==
  /\ fpc = "i_invariant_check_prompt"
  /\ \E answer \in {"", "n", "y"}, which \in {"l", "o", "x"} :
       Perform(Enter("invariant_check_prompt") \o
         (IF answer # "" /\ answer # "n" THEN invariant_check(which)
          ELSE <<>>))
  /\ fpc' = "i_dataplane_trace_prompt"
  /\ UNCHANGED <<dagVars, replayVars, bufVars, syncVars, entVars, fuzzConfig>>
  /\ UNCHANGED <<drainVars, dbgVars>>
  /\ UNCHANGED <<logical_time, end_time, thread_alive, raised, closed,
                 simVars>>

\* Interactive.dataplane_trace_prompt: feeds answers of yes, then a no
DataplaneTracePrompt ==
  /\ fpc = "i_dataplane_trace_prompt"
  /\ \E feeds \in 0..MaxFeeds :
       Perform(Enter("dataplane_trace_prompt") \o
         (IF dataplane_trace # "None"
          THEN Flatten([i \in 1..feeds |->
                 <<Call("inject_trace_event", logical_time),
                   LogCall("TrafficInjection", logical_time)>>])
          ELSE <<>>))
  /\ fpc' = "i_check_dataplane"
  /\ UNCHANGED <<dagVars, replayVars, bufVars, syncVars, entVars, fuzzConfig>>
  /\ UNCHANGED <<drainVars, dbgVars>>
  /\ UNCHANGED <<logical_time, end_time, thread_alive, raised, closed,
                 simVars>>

\* The operator's lower-cased answers to 'Allow [a], Drop [d], or Delay [e]'
DpAnswers == {"", "a", "d", "e", "x"}

\* The call msg.raw_input(...) for dp_event, named by what it returned
dp_raw_input(dp_event, answer) ==
  Call([a \in DpAnswers |->
          CASE a = "" -> "raw_input ''"
            [] a = "a" -> "raw_input 'a'"
            [] a = "d" -> "raw_input 'd'"
            [] a = "e" -> "raw_input 'e'"
            [] OTHER -> "raw_input 'x'"][answer],
       dp_event.fingerprint)

\* Variant of interactive_dp_decision that permits whatever the topology says
interactive_dp_decision_any(dp_event, answer) ==
  IF answer = "" \/ answer = "a" THEN "permit"
  ELSE IF answer = "d" THEN "drop"
  ELSE "delay"

\* The branch Interactive.check_dataplane takes for dp_event on the
\* lower-cased answer
interactive_dp_decision(dp_event, answer) ==
  IF (answer = "" \/ answer = "a") /\ topology_ok_to_send(dp_event)
  THEN "permit"
  ELSE IF answer = "d" THEN "drop"
  ELSE IF answer = "e" THEN "delay"
  ELSE "delay"

\* Interactive.check_dataplane
InteractiveCheckDataplane ==
  /\ fpc = "i_check_dataplane"
  /\ LET q == queued_dataplane_events
         fps == {q[i].fingerprint : i \in 1..Len(q)}
     IN  \E answer \in [fps -> DpAnswers] :
           LET decision(e) == interactive_dp_decision(e, answer[e.fingerprint])
           IN  /\ Perform(Enter("check_dataplane") \o
                     Flatten([i \in 1..Len(q) |->
                                <<dp_raw_input(q[i],
                                               answer[q[i].fingerprint])>>
                                  \o dp_calls(q[i], decision(q[i]))]))
               /\ queued_dataplane_events' =
                    SelectSeq(q, LAMBDA e : decision(e) = "delay")
  /\ fpc' = "i_check_message_receipts"
  /\ UNCHANGED <<dagVars, replayVars, bufVars, syncVars, entVars, fuzzConfig>>
  /\ UNCHANGED <<drainVars, dbgVars>>
  /\ UNCHANGED <<logical_time, end_time, thread_alive, raised, closed,
                 dp_events, live_switches, live_links, live_controllers,
                 blocked_controller_connections, echo_requests>>

\* Variant of interactive_receipts that releases the newest receipt first
interactive_receipts_lifo(pending) ==
  [i \in 1..Len(pending) |-> pending[Len(pending) + 1 - i]]

\* The receipts Interactive.check_message_receipts schedules, in order:
\* every one that god_scheduler.pending_receives() yields
interactive_receipts(pending) == pending

\* Interactive.check_message_receipts
InteractiveCheckMessageReceipts ==
  /\ fpc = "i_check_message_receipts"
  /\ LET scheduled == interactive_receipts(pending_receives)
     IN  /\ Perform(Enter("check_message_receipts") \o
               Flatten([i \in 1..Len(scheduled) |->
                 <<Call("schedule", scheduled[i].id),
                   LogCall("ControlMessageReceive", scheduled[i].id)>>]))
         /\ pending_receives' =
              SelectSeq(pending_receives,
                        LAMBDA h : h \notin Range(scheduled))
         /\ delivered' =
              delivered \o [i \in 1..Len(scheduled) |->
                             [conn |-> scheduled[i].conn,
                              msg |-> scheduled[i].msg]]
         /\ releases' = Bumps(releases, scheduled)
         /\ lastOp' =
              IF scheduled = <<>> THEN lastOp
              ELSE <<[op |-> "schedule",
                      id |-> scheduled[Len(scheduled)].id,
                      result |-> "ok"]>>
  /\ fpc' = "i_continue"
  /\ UNCHANGED <<dagVars, replayVars, syncVars, entVars, fuzzConfig>>
  /\ UNCHANGED <<drainVars, dbgVars>>
  /\ UNCHANGED <<true_on_message_handler, pending_sends, issued, transport,
                 drops>>
  /\ UNCHANGED <<logical_time, end_time, thread_alive, raised, closed,
                 simVars>>

\* answer = raw_input('Continue to next round? [Yn]'), lower-cased: the loop
\* goes on, or breaks and the finally clause closes the logger
ContinuePrompt ==
  /\ fpc = "i_continue"
  /\ \E answer \in {"", "y", "n"} :
       IF answer # "" /\ answer # "y"
       THEN /\ closed' = close(closed)
            /\ fpc' = "done"
       ELSE /\ logical_time < MaxSteps
            /\ fpc' = "i_sleep"
            /\ UNCHANGED closed
  /\ UNCHANGED <<dagVars, replayVars, bufVars, syncVars, entVars, fuzzConfig>>
  /\ UNCHANGED <<drainVars, dbgVars>>
  /\ UNCHANGED <<logical_time, end_time, thread_alive, round_calls, raised,
                 simVars, input_log>>

(***************************************************************************)
(* RecordingSyncCallback, the callback of Fuzzer and Interactive           *)
(***************************************************************************)
MaxRecords == 3

\* The state changes the controllers report while a run is recorded
ReportedChanges ==
  {PendingStateChange(uuid, SyncTime(1, us), "fp", "role", v) :
     uuid \in {"c1", "c2"}, us \in {0, 1}, v \in {"master", "slave"}}

\* Variant of recording_state_change that records a state change once
recording_state_change_once(log, uuid, time, fingerprint, name, value) ==
  LET record == [klass |-> "ControllerStateChange", controller_id |-> uuid,
                 time |-> time, fingerprint |-> fingerprint, name |-> name,
                 value |-> value]
  IN  IF input_logger = "None" \/ record \in Range(log) THEN log
      ELSE Append(log, record)

\* RecordingSyncCallback.state_change: the logger's records afterwards
recording_state_change(log, uuid, time, fingerprint, name, value) ==
  IF input_logger # "None"
  THEN Append(log, [klass |-> "ControllerStateChange",
                    controller_id |-> uuid, time |-> time,
                    fingerprint |-> fingerprint, name |-> name,
                    value |-> value])
  ELSE log

\* A controller reports a state change to the recording callback
RecordingStateChange ==
  \E k \in ReportedChanges :
    /\ Len(round_calls) < MaxRecords
    /\ round_calls' = Append(round_calls, Call("state_change", k))
    /\ input_log' =
         recording_state_change(input_log, k.controller_id, k.time,
                                k.fingerprint, k.name, k.value)
    /\ UNCHANGED <<dagVars, replayVars, bufVars, syncVars, entVars, fuzzConfig>>
    /\ UNCHANGED <<drainVars, dbgVars>>
    /\ UNCHANGED <<fpc, logical_time, end_time, thread_alive, raised,
                   simVars, closed>>

(***************************************************************************)
(* FuzzSoftwareSwitch and Controller (sts/entities.py): fault injection    *)
(***************************************************************************)
MaxOps == 3

\* The cids of the switch's controller_info, in order
ControllerInfo == {1, 2}

\* FuzzSoftwareSwitch.__init__: connections are named by their number, made
\* counts the calls of the connection factory
NewSwitch ==
  [failed |-> FALSE, create_connection |-> "None", connections |-> <<>>,
   cid2connection |-> <<>>, closed_connections |-> {}, made |-> 0,
   transmitted |-> {}]

\* VMController and the classes derived from it
VMSorts == {"VMController", "BigSwitchController", "ONOSController"}

\* Controller.__init__ and VMController.__init__ (which refuses an empty
\* start_cmd): process 0 is None, started counts the processes launched
NewControllers ==
  {[sort |-> "Controller", start_cmd |-> c, state |-> "DEAD", process |-> 0,
    active_processes |-> {}, started |-> 0] : c \in {"", "cmd"}}
  \cup {[sort |-> c, start_cmd |-> "cmd", state |-> "DEAD",
         process |-> 0, active_processes |-> {}, started |-> 0] :
          c \in VMSorts}

RECURSIVE connect_each(_, _)
\* The body of the loop of connect, for the cids of the sequence
connect_each(sw, cids) ==
  IF cids = <<>> THEN sw
  ELSE LET conn == sw.made + 1
       IN  connect_each(
             [sw EXCEPT !.made = conn,
                        !.connections = Append(@, conn),
                        !.cid2connection = (Head(cids) :> conn) @@ @],
             Tail(cids))

\* FuzzSoftwareSwitch.connect: the switch afterwards
connect(sw, create_connection, down_controller_ids) ==
  connect_each([sw EXCEPT !.create_connection = create_connection],
               SortedSeq(ControllerInfo \ down_controller_ids))

\* FuzzSoftwareSwitch.fail: the switch afterwards
fail(sw) ==
  IF sw.failed THEN sw
  ELSE [sw EXCEPT !.failed = TRUE,
                  !.closed_connections = @ \cup Range(sw.connections),
                  !.connections = <<>>]

\* Variant of recover that reconnects a switch that is up
recover_always(sw, down_controller_ids) ==
  LET connected == connect(sw, sw.create_connection, down_controller_ids)
  IN  IF sw.create_connection = "None" THEN sw
      ELSE IF ControllerInfo \ down_controller_ids # {}
      THEN [connected EXCEPT !.failed = FALSE]
      ELSE connected

\* FuzzSoftwareSwitch.recover: the switch afterwards. With no connection
\* factory kept, the first create_connection(info, self) raises TypeError
\* before anything is changed.
recover(sw, down_controller_ids) ==
  IF ~sw.failed THEN sw
  ELSE IF sw.create_connection = "None"
          /\ ControllerInfo \ down_controller_ids # {}
  THEN sw
  ELSE LET connected ==
             connect(sw, sw.create_connection, down_controller_ids)
       IN  IF ControllerInfo \ down_controller_ids # {}
           THEN [connected EXCEPT !.failed = FALSE]
           ELSE connected

\* FuzzSoftwareSwitch.send: a failed switch drops the message, a switch that
\* is up hands it to SoftwareSwitch.send, which writes it on the connections
switch_send(sw) ==
  IF sw.failed THEN sw
  ELSE [sw EXCEPT !.transmitted = @ \cup Range(sw.connections)]

\* Controller.kill and VMController.kill: the controller afterwards
kill(ctl) ==
  IF ctl.state # "ALIVE" THEN ctl
  ELSE IF ctl.sort \in VMSorts THEN [ctl EXCEPT !.state = "DEAD"]
  ELSE [ctl EXCEPT !.active_processes = @ \ {ctl.process},
                   !.process = 0,
                   !.state = "DEAD"]

\* Variant of start that launches a process whatever the state
start_always(ctl) ==
  IF ctl.start_cmd = "" THEN ctl
  ELSE [ctl EXCEPT !.started = @ + 1,
                   !.process = ctl.started + 1,
                   !.active_processes = @ \cup {ctl.started + 1},
                   !.state = "ALIVE"]

\* Controller.start and VMController.start: the controller afterwards; an
\* empty start_cmd raises RuntimeError before anything is changed
start(ctl) ==
  IF ctl.state # "DEAD" THEN ctl
  ELSE IF ctl.sort \in VMSorts
  THEN [ctl EXCEPT !.started = @ + 1, !.state = "STARTING"]
  ELSE IF ctl.start_cmd = "" THEN ctl
  ELSE [ctl EXCEPT !.started = @ + 1,
                   !.process = ctl.started + 1,
                   !.active_processes = @ \cup {ctl.started + 1},
                   !.state = "ALIVE"]

\* Controller.restart, which calls start, and the restart of VMController
\* and BigSwitchController, which runs the restart command: the controller
\* afterwards
restart(ctl) ==
  IF ctl.state # "DEAD" THEN ctl ELSE start(ctl)

\* Variant of check_status that takes a starting controller for alive once
\* its process is found
check_status_polls(ctl, remote_alive) ==
  IF ctl.sort \in VMSorts /\ ctl.state \in {"DEAD", "STARTING"}
     /\ remote_alive
  THEN [ctl EXCEPT !.state = "ALIVE"]
  ELSE ctl

\* Controller.check_status, which changes nothing, and
\* VMController.check_status, which returns at once on a starting
\* controller and holds a dead one for alive when alive_status_string is in
\* the remote status: the controller afterwards
check_status(ctl, remote_alive) ==
  IF ctl.sort \in VMSorts /\ ctl.state = "DEAD" /\ remote_alive
  THEN [ctl EXCEPT !.state = "ALIVE"]
  ELSE ctl

\* The call and the entities after it
Called(name, arg, sw, ctl) ==
  [call |-> name, arg |-> arg, switch |-> sw, controller |-> ctl]

InitEntities ==
  /\ switch = NewSwitch
  /\ controller \in NewControllers
  /\ entity_calls = <<Called("__init__", {}, switch, controller)>>

\* A switch and a controller on which nothing is called
InitIdleEntities ==
  /\ InitEntities
  /\ controller.sort = "Controller"
  /\ controller.start_cmd = "cmd"

\* One call on the switch
SwitchCall(name, arg, sw) ==
  /\ Len(entity_calls) <= MaxOps
  /\ switch' = sw
  /\ entity_calls' = Append(entity_calls, Called(name, arg, sw, controller))
  /\ UNCHANGED controller
  /\ UNCHANGED <<dagVars, replayVars, bufVars, syncVars, fuzzConfig>>
  /\ UNCHANGED <<fuzzRun, simVars, logVars, drainVars, dbgVars>>

\* One call on the controller
ControllerCall(name, ctl) ==
  /\ Len(entity_calls) <= MaxOps
  /\ controller' = ctl
  /\ entity_calls' = Append(entity_calls, Called(name, {}, switch, ctl))
  /\ UNCHANGED switch
  /\ UNCHANGED <<dagVars, replayVars, bufVars, syncVars, fuzzConfig>>
  /\ UNCHANGED <<fuzzRun, simVars, logVars, drainVars, dbgVars>>

\* connect(create_connection, down_controller_ids), on a switch in any state
SwitchConnect ==
  /\ \E down \in SUBSET ControllerInfo :
       SwitchCall("connect", down, connect(switch, "factory", down))

SwitchFail == SwitchCall("fail", {}, fail(switch))

SwitchRecover ==
  \E down \in SUBSET ControllerInfo :
    SwitchCall("recover", down, recover(switch, down))

SwitchSend == SwitchCall("send", {}, switch_send(switch))

ControllerKill == ControllerCall("kill", kill(controller))

ControllerStart == ControllerCall("start", start(controller))

ControllerRestart == ControllerCall("restart", restart(controller))

\* check_status(simulation); for a VMController the remote status names a
\* running controller process or not
VMCheckStatus ==
  \E remote_alive \in BOOLEAN :
    ControllerCall("check_status", check_status(controller, remote_alive))

(***************************************************************************)
(* FuzzSoftwareSwitch (sts/entities.py): delayed processing of flow_mods   *)
(***************************************************************************)
MaxCommands == 5

MaxWeight == 2

\* The draws of self.random.random()
Weights == 1..MaxWeight

\* The messages a connection hands to the switch
MessageKinds == {"ofp_flow_mod", "ofp_echo_request"}

\* A switch after __init__ and, or not, use_delayed_commands() and
\* randomize_flow_mods(): on_message_received names the handler in use,
\* cmd_queue is "None" or the set of (weight, receipt) entries of the
\* priority queue, openflow_buffer holds the buffered receipts, table lists
\* the flow_mods applied to the flow table and processed the other messages
\* handled, each message being named by its number of arrival
DelayedSwitches ==
  {[on_message_received |-> h, randomized |-> r, cmd_queue |-> {},
    openflow_buffer |-> {}, table |-> <<>>, processed |-> <<>>,
    received |-> 0] :
     h \in {"on_message_received", "on_message_received_delayed"},
     r \in BOOLEAN}

\* The argument or the outcome of a call on the switch
Command(kind, weight, id) == [kind |-> kind, weight |-> weight, id |-> id]

\* NXSoftwareSwitch.on_message_received, also what TableInserter's
\* allow_message_receipt calls: the message is handled at once
on_message_received(sw, kind, id) ==
  IF kind = "ofp_flow_mod"
  THEN [sw EXCEPT !.table = Append(@, id)]
  ELSE [sw EXCEPT !.processed = Append(@, id)]

\* FuzzSoftwareSwitch.on_message_received_delayed: the switch afterwards
on_message_received_delayed(sw, kind, weight, id) ==
  IF kind = "ofp_flow_mod"
  THEN [sw EXCEPT !.openflow_buffer = @ \cup {id},
                  !.cmd_queue = IF sw.randomized
                                THEN @ \cup {[weight |-> weight,
                                              receive |-> id]}
                                ELSE @]
  ELSE on_message_received(sw, kind, id)

\* Variant of get_nowait that takes any entry of the queue
get_nowait_any(queue) == queue

\* PriorityQueue.get_nowait: the entries that may come out, those that no
\* entry precedes in the order of the (weight, receipt) tuples; which of
\* two entries of one weight comes first is left to the receipts' order
get_nowait(queue) ==
  {e \in queue : \A f \in queue : e.weight <= f.weight}

\* FuzzSoftwareSwitch.process_delayed_command with entry e of the queue:
\* openflow_buffer.schedule(e.receive) takes the receipt out of the buffer
\* and hands the flow_mod to the TableInserter
process_delayed_command(sw, e) ==
  on_message_received(
    [sw EXCEPT !.cmd_queue = @ \ {e},
               !.openflow_buffer = @ \ {e.receive}],
    "ofp_flow_mod", e.receive)

\* One call on the switch
DelayedCall(name, arg, sw) ==
  /\ Len(entity_calls) <= MaxCommands
  /\ switch' = sw
  /\ entity_calls' = Append(entity_calls, Called(name, arg, sw, controller))
  /\ UNCHANGED controller
  /\ UNCHANGED <<dagVars, replayVars, bufVars, syncVars, fuzzConfig>>
  /\ UNCHANGED <<fuzzRun, simVars, logVars, drainVars, dbgVars>>

\* A connection hands a message to self.on_message_received
OnMessageReceived ==
  \E kind \in MessageKinds, weight \in Weights :
    LET id == switch.received + 1
        sw == [switch EXCEPT !.received = id]
    IN  DelayedCall(
          "on_message_received", Command(kind, weight, id),
          IF switch.on_message_received = "on_message_received_delayed"
          THEN on_message_received_delayed(sw, kind, weight, id)
          ELSE on_message_received(sw, kind, id))

\* process_delayed_command() returns the scheduled command
ProcessDelayedCommand ==
  /\ switch.randomized
  /\ \E e \in get_nowait(switch.cmd_queue) :
       DelayedCall("process_delayed_command",
                   Command("scheduled", e.weight, e.receive),
                   process_delayed_command(switch, e))

\* process_delayed_command() raises: Queue.Empty on an empty queue,
\* AttributeError when randomize_flow_mods was never called (cmd_queue is
\* None)
ProcessDelayedCommandRaises ==
  /\ switch.randomized => switch.cmd_queue = {}
  /\ DelayedCall("process_delayed_command",
                 Command(IF switch.randomized THEN "Queue.Empty"
                         ELSE "AttributeError", 0, 0),
                 switch)

(***************************************************************************)
(* The control thread drains the buffer while the transport inserts        *)
(***************************************************************************)
\* Variant of taken that leaves the entry in the table
taken_kept(pending, h) == pending

\* OpenFlowBuffer.schedule and drop: the table after the entry was taken out
taken(pending, h) == Remove(pending, h)

\* for pending_receipt in god_scheduler.pending_receives(): the iteration
\* begins on a snapshot of the buffered receipts
BeginDrain ==
  /\ iterator = <<>>
  /\ pending_receives # <<>>
  /\ iterator' = pending_receives
  /\ UNCHANGED <<dagVars, replayVars, bufVars, syncVars, entVars>>
  /\ UNCHANGED <<fuzzConfig, fuzzRun, simVars, logVars, dbgVars>>

\* The body of the loop calls schedule(pending_receipt)
DrainSchedule ==
  /\ iterator # <<>>
  /\ iterator' = Tail(iterator)
  /\ LET h == Head(iterator)
     IN  IF Buffered(h)
         THEN /\ pending_receives' = taken(pending_receives, h)
              /\ releases' = Bump(releases, h.id)
              /\ delivered' = allow_message_receipt(h.conn, h.msg)
              /\ lastOp' =
                   <<[op |-> "schedule", id |-> h.id, result |-> "ok"]>>
         ELSE /\ lastOp' =
                   <<[op |-> "schedule", id |-> h.id, result |-> "NotFound"]>>
              /\ UNCHANGED <<pending_receives, releases, delivered>>
  /\ UNCHANGED <<true_on_message_handler, pending_sends, issued, transport,
                 drops>>
  /\ UNCHANGED <<dagVars, replayVars, syncVars, entVars>>
  /\ UNCHANGED <<fuzzConfig, fuzzRun, simVars, logVars, dbgVars>>

\* The body of the loop calls drop(pending_receipt)
DrainDrop ==
  /\ iterator # <<>>
  /\ iterator' = Tail(iterator)
  /\ LET h == Head(iterator)
     IN  IF Buffered(h)
         THEN /\ pending_receives' = taken(pending_receives, h)
              /\ drops' = Bump(drops, h.id)
              /\ lastOp' = <<[op |-> "drop", id |-> h.id, result |-> "ok"]>>
         ELSE /\ lastOp' =
                   <<[op |-> "drop", id |-> h.id, result |-> "NotFound"]>>
              /\ UNCHANGED <<pending_receives, drops>>
  /\ UNCHANGED <<true_on_message_handler, pending_sends, issued, transport,
                 releases, delivered>>
  /\ UNCHANGED <<dagVars, replayVars, syncVars, entVars>>
  /\ UNCHANGED <<fuzzConfig, fuzzRun, simVars, logVars, dbgVars>>

\* The body of the loop leaves the receipt buffered (the draw was not below
\* ofp_message_receipt_rate)
DrainSkip ==
  /\ iterator # <<>>
  /\ iterator' = Tail(iterator)
  /\ UNCHANGED <<dagVars, replayVars, bufVars, syncVars, entVars>>
  /\ UNCHANGED <<fuzzConfig, fuzzRun, simVars, logVars, dbgVars>>

(***************************************************************************)
(* debugger.py: kill_children, handle_int and the finally clause           *)
(***************************************************************************)
MaxChildren == 2

MaxSignals == 1

MaxPass == 1

\* (now - start_time) > 5: the seconds kill_children waits for the children
kill_timeout == 5

\* The state of the script for n child controllers booted: phase is "try"
\* in the body of the try statement, "unwind" once sys.exit has raised
\* there, "finally" in the finally clause and "exited" afterwards; frames
\* holds the activations of kill_children that have not returned, the
\* innermost last; kill_calls and returned list its calls and returns
Debugger(n) ==
  [child_processes |-> [i \in 1..n |-> i],
   exited |-> {},
   sent |-> [c \in 1..n |-> <<>>],
   already_run |-> FALSE,
   phase |-> "try",
   signals |-> 0,
   frames |-> <<>>,
   kill_calls |-> <<>>,
   returned |-> <<>>]

\* A script that has booted no controller and stays in the try statement
InitIdleDebugger == debugger = Debugger(0)

RECURSIVE poll_children(_, _, _)
\* for child in child_processes: if child.poll() != None:
\* child_processes.remove(child), from index i on: the list afterwards.
\* The for statement goes on to index i + 1 of the list as it is after
\* the removal.
poll_children(children, exited, i) ==
  IF i > Len(children) THEN children
  ELSE IF children[i] \in exited
  THEN poll_children(Remove(children, children[i]), exited, i + 1)
  ELSE poll_children(children, exited, i + 1)

\* child.kill() or child.terminate() for every child of the list
signal_children(dbg, kill_arg) ==
  [c \in DOMAIN dbg.sent |->
     IF c \in Range(dbg.child_processes)
     THEN Append(dbg.sent[c], IF kill_arg THEN "kill" ELSE "terminate")
     ELSE dbg.sent[c]]

\* kill_children(kill) up to the while statement, called from caller;
\* kill_arg is "None", "True" or "False"
kill_children(dbg, kill_arg, caller) ==
  LET kill_now == IF kill_arg = "None" THEN dbg.already_run
                  ELSE kill_arg = "True"
      entered == [dbg EXCEPT !.already_run = (kill_arg = "None") \/ @]
      frame(at, why) ==
        [kill |-> kill_now, caller |-> caller, at |-> at, elapsed |-> 0,
         why |-> why]
  IN  IF dbg.child_processes = <<>>
      THEN [entered EXCEPT
              !.frames = Append(@, frame("return", "empty")),
              !.kill_calls = Append(@, [argless |-> kill_arg = "None",
                                        kill |-> kill_now,
                                        targets |-> {},
                                        sent |-> dbg.sent])]
      ELSE LET sent == signal_children(dbg, kill_now)
           IN  [entered EXCEPT
                  !.sent = sent,
                  !.frames = Append(@, frame("while", "")),
                  !.kill_calls =
                     Append(@, [argless |-> kill_arg = "None",
                                kill |-> kill_now,
                                targets |-> Range(dbg.child_processes),
                                sent |-> sent])]

\* Variant of timed_out for a wait without a limit
timed_out_never(elapsed) == FALSE

\* (now - start_time) > 5
timed_out(elapsed) == elapsed > kill_timeout

\* The innermost activation of kill_children
Top == debugger.frames[Len(debugger.frames)]

\* The other variables
DebuggerStep ==
  UNCHANGED <<dagVars, replayVars, bufVars, syncVars, fuzzConfig, fuzzRun,
              simVars, logVars, entVars, drainVars>>

\* A child controller ends, of itself or on a signal
ChildExits ==
  /\ debugger.phase # "exited"
  /\ \E c \in DOMAIN debugger.sent \ debugger.exited :
       debugger' = [debugger EXCEPT !.exited = @ \cup {c}]
  /\ DebuggerStep

\* SIGINT or SIGTERM arrives: handle_int calls kill_children()
handle_int ==
  /\ debugger.phase \in {"try", "finally"}
  /\ debugger.signals < MaxSignals
  /\ debugger' = kill_children([debugger EXCEPT !.signals = @ + 1],
                               "None", "handle_int")
  /\ DebuggerStep

\* The try statement is left, by its end, by an exception or by the
\* SystemExit of handle_int: the finally clause calls kill_children()
Finally ==
  /\ debugger.phase \in {"try", "unwind"}
  /\ debugger.frames = <<>>
  /\ debugger' = kill_children([debugger EXCEPT !.phase = "finally"],
                               "None", "finally")
  /\ DebuggerStep

\* One pass of the while statement of kill_children: the children that
\* have ended are taken off the list; with none left the loop is left, else
\* after the sleep the time is compared with the limit: a kill attempt
\* leaves the loop, a terminate attempt returns kill_children(kill=True)
LoopPass ==
  /\ debugger.frames # <<>>
  /\ Top.at = "while"
  /\ LET n == Len(debugger.frames)
         left == poll_children(debugger.child_processes, debugger.exited, 1)
         polled == [debugger EXCEPT !.child_processes = left]
     IN  IF left = <<>>
         THEN debugger' = [polled EXCEPT !.frames[n].at = "return",
                                         !.frames[n].why = "empty"]
         ELSE \E d \in 1..MaxPass :
                LET now == IF Top.elapsed + d > kill_timeout + MaxPass
                           THEN kill_timeout + MaxPass
                           ELSE Top.elapsed + d
                IN  IF ~timed_out(now)
                    THEN debugger' = [polled EXCEPT !.frames[n].elapsed = now]
                    ELSE IF Top.kill
                    THEN debugger' =
                           [polled EXCEPT !.frames[n].elapsed = now,
                                          !.frames[n].at = "return",
                                          !.frames[n].why = "timeout"]
                    ELSE debugger' =
                           kill_children(
                             [polled EXCEPT
                                !.frames = SubSeq(@, 1, n - 1),
                                !.returned =
                                   Append(@, [kill |-> FALSE,
                                              why |-> "kill_children",
                                              elapsed |-> now,
                                              left |-> Len(left)])],
                             "True", Top.caller)
  /\ DebuggerStep

\* kill_children returns to handle_int, which calls sys.exit(0), or to the
\* finally clause, after which the script ends; SystemExit leaves the
\* activations that handle_int interrupted
Return ==
  /\ debugger.frames # <<>>
  /\ Top.at = "return"
  /\ debugger' =
       [debugger EXCEPT
          !.frames = <<>>,
          !.returned = Append(@, [kill |-> Top.kill, why |-> Top.why,
                                  elapsed |-> Top.elapsed,
                                  left |-> Len(debugger.child_processes)]),
          !.phase = IF Top.caller = "handle_int" /\ @ = "try"
                    THEN "unwind" ELSE "exited"]
  /\ DebuggerStep

\* A Fuzzer that is constructed and never run
InitIdleFuzzer ==
  /\ InitFuzzer
  /\ fpc = "constructed"
  /\ defined_rates = RateNames
  /\ params = NoFaults
  /\ steps = 0
  /\ trace_interval = 2
  /\ network # {}

\* A Replayer over a one-event trace, not started
InitIdleReplay ==
  /\ dag = <<SyncTime(1, 0)>>
  /\ dependents = <<{}>>
  /\ Required = {}
  /\ violationReproducible = TRUE
  /\ InitReplay("Replayer")

(***************************************************************************)
(* Specification of one Replayer pass                                      *)
(***************************************************************************)
Init ==
  /\ dag \in Traces(NumEvents)
  /\ dependents \in DependencyMaps(NumEvents)
  /\ Required = {}
  /\ violationReproducible = TRUE
  /\ InitReplay("Replayer")
  /\ InitBuffer
  /\ InitIdleDebugger
  /\ InitSync
  /\ InitIdleFuzzer
  /\ InitIdleEntities

Next ==
  \/ SimulateBootstrap
  \/ WatcherRun
  \/ WatcherReturn
  \/ WatcherRaise
  \/ SimulateReturn
  \/ GetDeterministicValue

Spec == Init /\ [][Next]_vars

(***************************************************************************)
(* Specification of MCSFinder.simulate on a recorded trace of McsEvents    *)
(* events, one second apart.                                               *)
(***************************************************************************)
McsEvents == 5

ChainMaps(n) ==
  {[i \in 1..n |-> IF i \in S THEN {i + 1} ELSE {}] : S \in SUBSET (1..(n - 1))}

InitMCS ==
  /\ dag = [i \in 1..McsEvents |-> SyncTime(i, 700)]
  /\ dependents \in ChainMaps(McsEvents)
  /\ Required \in SUBSET (1..McsEvents)
  /\ violationReproducible \in BOOLEAN
  /\ InitReplay("MCSFinder")
  /\ InitBuffer
  /\ InitIdleDebugger
  /\ InitSync
  /\ InitIdleFuzzer
  /\ InitIdleEntities

NextMCS ==
  \/ SimulateBootstrap
  \/ WatcherRun
  \/ WatcherReturn
  \/ WatcherRaise
  \/ ControlRunReturn
  \/ PruneBootstrap
  \/ PrunedWatcherRun
  \/ PrunedPassEnd
  \/ McsReturn

SpecMCS == InitMCS /\ [][NextMCS]_vars

(***************************************************************************)
(* Specification of the message buffer behind the deferred connections     *)
(***************************************************************************)
InitBuf ==
  /\ InitIdleReplay
  /\ InitBuffer
  /\ InitIdleDebugger
  /\ InitSync
  /\ InitIdleFuzzer
  /\ InitIdleEntities

NextBuffer ==
  \/ \E c \in Conns : set_message_handler(c)
  \/ \E c \in Conns, m \in NewMessages : insert_pending_receipt(c, m)
  \/ \E c \in Conns, m \in NewMessages : send(c, m)
  \/ \E h \in Range(issued) : schedule(h)
  \/ \E h \in Range(issued) : drop(h)

SpecBuffer == InitBuf /\ [][NextBuffer]_vars

(***************************************************************************)
(* Specification of the buffer drained by the control thread while the     *)
(* transport layer inserts                                                 *)
(***************************************************************************)
NextDrain ==
  \/ \E c \in Conns : set_message_handler(c)
  \/ \E c \in Conns, m \in NewMessages : insert_pending_receipt(c, m)
  \/ \E c \in Conns, m \in NewMessages : send(c, m)
  \/ BeginDrain
  \/ DrainSchedule
  \/ DrainDrop
  \/ DrainSkip

SpecDrain == InitBuf /\ [][NextDrain]_vars

(***************************************************************************)
(* Specification of the replay sync callback                               *)
(***************************************************************************)
InitCallback ==
  /\ InitIdleReplay
  /\ InitBuffer
  /\ InitIdleDebugger
  /\ InitSync
  /\ InitIdleFuzzer
  /\ InitIdleEntities

NextSync ==
  \/ StateChange
  \/ GcPendingStateChange
  \/ StateChangePending
  \/ ReplayGetDeterministicValue
  \/ RecordingGetDeterministicValue

SpecSync == InitCallback /\ [][NextSync]_vars

(***************************************************************************)
(* Specification of Fuzzer.simulate                                        *)
(***************************************************************************)
InitFuzz ==
  /\ InitIdleReplay
  /\ InitBuffer
  /\ InitIdleDebugger
  /\ InitSync
  /\ InitFuzzer
  /\ InitIdleEntities

NextFuzzer ==
  \/ FuzzerSimulate
  \/ FuzzerBootstrapRaises
  \/ RoundBegin
  \/ CheckDataplane
  \/ CheckTcpConnections
  \/ CheckMessageReceipts
  \/ CheckSwitchCrashes
  \/ FuzzTraffic
  \/ CheckControllers
  \/ MaybeCheckCorrespondence
  \/ KeepAlive
  \/ CorrespondenceJoined
  \/ MaybeInjectTraceEvent
  \/ Sleep
  \/ LoopExit
  \/ DataplaneEventQueued
  \/ MessageReceived

SpecFuzzer == InitFuzz /\ [][NextFuzzer]_vars

\* The thread of simulate keeps running; nothing makes the thread of the
\* correspondence check finish (its isAlive() may answer True for ever)
SpecFuzzerFair == InitFuzz /\ [][NextFuzzer]_vars /\ WF_vars(NextFuzzer)

(***************************************************************************)
(* Specification of Interactive.simulate                                   *)
(***************************************************************************)
InitInter ==
  /\ InitIdleReplay
  /\ InitBuffer
  /\ InitIdleDebugger
  /\ InitSync
  /\ InitInteractive
  /\ InitIdleEntities

NextInteractive ==
  \/ InteractiveSimulate
  \/ InteractiveRoundBegin
  \/ InteractiveDataplaneEventQueued
  \/ InteractiveMessageReceived
  \/ InvariantCheckPrompt
  \/ DataplaneTracePrompt
  \/ InteractiveCheckDataplane
  \/ InteractiveCheckMessageReceipts
  \/ ContinuePrompt

SpecInteractive == InitInter /\ [][NextInteractive]_vars

(***************************************************************************)
(* Specification of the recording sync callback                            *)
(***************************************************************************)
InitRecording ==
  /\ InitIdleReplay
  /\ InitBuffer
  /\ InitIdleDebugger
  /\ InitSync
  /\ InitInteractive
  /\ InitIdleEntities

NextRecording ==
  \/ RecordingStateChange
  \/ RecordingGetDeterministicValue

SpecRecording == InitRecording /\ [][NextRecording]_vars

(***************************************************************************)
(* Specification of the fault injections on a switch and a controller      *)
(***************************************************************************)
InitEnt ==
  /\ InitIdleReplay
  /\ InitBuffer
  /\ InitIdleDebugger
  /\ InitSync
  /\ InitIdleFuzzer
  /\ InitEntities

NextEntities ==
  \/ SwitchConnect
  \/ SwitchFail
  \/ SwitchRecover
  \/ SwitchSend
  \/ ControllerKill
  \/ ControllerStart
  \/ ControllerRestart
  \/ VMCheckStatus

SpecEntities == InitEnt /\ [][NextEntities]_vars

(***************************************************************************)
(* Specification of a switch that delays its flow_mods                     *)
(***************************************************************************)
InitDelayed ==
  /\ InitIdleReplay
  /\ InitBuffer
  /\ InitIdleDebugger
  /\ InitSync
  /\ InitIdleFuzzer
  /\ switch \in DelayedSwitches
  /\ controller \in NewControllers
  /\ controller.sort = "Controller"
  /\ controller.start_cmd = "cmd"
  /\ entity_calls =
       <<Called("__init__", Command("None", 0, 0), switch, controller)>>

NextDelayed ==
  \/ OnMessageReceived
  \/ ProcessDelayedCommand
  \/ ProcessDelayedCommandRaises

SpecDelayed == InitDelayed /\ [][NextDelayed]_vars

(***************************************************************************)
(* Specification of the cleanup of the child controllers; each step that   *)
(* can be taken is taken in the end                                        *)
(***************************************************************************)
InitKill ==
  /\ InitIdleReplay
  /\ InitBuffer
  /\ InitSync
  /\ InitIdleFuzzer
  /\ InitIdleEntities
  /\ \E n \in 0..MaxChildren : debugger = Debugger(n)

NextKill ==
  \/ ChildExits
  \/ handle_int
  \/ Finally
  \/ LoopPass
  \/ Return

\* The script takes its steps; signals and the end of a child may never come
SpecKill ==
  InitKill /\ [][NextKill]_vars /\ WF_vars(Finally \/ LoopPass \/ Return)

(***************************************************************************)
(* Properties of the Replayer                                              *)
(***************************************************************************)
\* C1: in Replayer.simulate, whenever the watcher of an event e2 has been
\* invoked, the watcher of every event causally before e2 has completed, and
\* at most one watcher is invoked and not completed (no two overlap).
C1_WatchersInCausalOrder ==
  visited = <<>> =>
    /\ \A e2 \in yielded : \A e1 \in Events :
         CausallyBefore(e1, e2) => e1 \in completed
    /\ Cardinality(yielded \ completed) <= 1
    /\ running # 0 => yielded \ completed = {running}

C1_Witness ==
  /\ pc = "running"
  /\ \E e1 \in completed : CausallyBefore(e1, running)
  /\ \E e1 \in completed : ~CausallyBefore(e1, running)

\* C2: every answer to a time query is no smaller than the previous answer
\* and strictly smaller than the timestamp of the next event not replayed
\* yet, whatever the timestamps of the events.
C2_TimeMonotoneAndBeforeLandmark ==
  lastQuery # <<>> =>
    LET q == lastQuery[1]
    IN  /\ q.prev # <<>> => TimeLeq(q.prev[1], q.value)
        /\ q.landmark # <<>> => TimeLess(q.value, q.landmark[1])

(***************************************************************************)
(* Properties of MCSFinder                                                 *)
(***************************************************************************)
\* C12: in a Replayer pass the simulation has been bootstrapped once before
\* any watcher runs, the watchers are invoked in DAG order, and while the
\* watcher of event e runs a time query returns e's timestamp with 500
\* microseconds taken off the microsecond field, floored at zero.
C12_TimeRecomputedBeforeWatcher ==
  (visited = <<>> /\ pc = "running") =>
    LET t == dag[running]
        micro == IF t.microSeconds >= 500 THEN t.microSeconds - 500 ELSE 0
    IN  /\ bootstraps = 1
        /\ yielded = 1..running
        /\ get_interpolated_time = SyncTime(t.seconds, micro)
        /\ get_deterministic_value("gettimeofday").value =
             <<SyncTime(t.seconds, micro)>>

C12_Witness ==
  /\ visited = <<>>
  /\ pc = "running"
  /\ running = 2
  /\ dag[1] = SyncTime(1, 700)
  /\ dag[2] = SyncTime(2, 300)
  /\ lastQuery # <<>>
  /\ lastQuery[1].value = SyncTime(2, 0)
  /\ lastQuery[1].prev = <<SyncTime(1, 200)>>

\* C13: after n watchers of a Replayer pass have completed, the Replayer's
\* round count is n.
C13_RoundCountsCompletedWatchers ==
  visited = <<>> => round = Cardinality(completed)

\* C14: a Replayer pass bootstraps the simulation exactly once, invokes the
\* watcher of each event at most once, and ends when the DAG is exhausted,
\* every watcher having completed; when a watcher raises, simulate ends with
\* the error, the failed watcher is not invoked again and no watcher of a
\* later event is invoked.
C14_SinglePass ==
  visited = <<>> =>
    /\ bootstraps = (IF pc = "constructed" THEN 0 ELSE 1)
    /\ \A e \in Events : invoked[e] = (IF e \in yielded THEN 1 ELSE 0)
    /\ pc \in {"iterate", "done"} => yielded = completed
    /\ pc = "done" => completed = Events
    /\ pc = "error" =>
         /\ running = 0
         /\ \E failed \in yielded :
              /\ completed = yielded \ {failed}
              /\ \A e \in yielded : e <= failed
    /\ pc \in {"done", "error"} =>
         ~ENABLED (SimulateBootstrap \/ WatcherRun \/ WatcherReturn
                     \/ WatcherRaise \/ SimulateReturn)

C14_Witness ==
  /\ visited = <<>>
  /\ pc = "error"
  /\ completed = {1}
  /\ yielded = {1, 2}
  /\ \A e \in Events : invoked[e] = (IF e <= 2 THEN 1 ELSE 0)
  /\ Len(dag) > 2

\* C5: when the control run reproduces the violation, the value returned by
\* MCSFinder.simulate is exactly the set of events the violation depends on.
C5_ReturnsRequiredSet ==
  (klass = "MCSFinder" /\ pc = "done" /\ controlResult = <<TRUE>>)
    => Range(mcs) = Required

\* C6: an event whose pruned run still reproduced the violation is removed
\* for good: no later pruned run replays it.
C6_ConfirmedPrunableStaysRemoved ==
  klass = "MCSFinder" => yielded \cap confirmedPrunable = {}

\* C7: if the control run does not reproduce the violation, no pruned run
\* is performed and no result is returned.
C7_AbortsWhenControlRunFails ==
  controlResult = <<FALSE>> => (visited = <<>> /\ pc # "done")

\* C8: the pruning loop visits the events in DAG order, bootstraps once per
\* visited event, never runs the watcher of the pruned event in its pass,
\* runs the remaining watchers in an order that keeps every causal
\* dependency among them, and a pass that ends has run all of them.
C8_PrunedPassSkipsOnlyPrunedEvent ==
  (klass = "MCSFinder" /\ visited # <<>>) =>
    /\ visited = SubSeq(events, 1, Len(visited))
    /\ bootstraps = 1 + Len(visited)
    /\ pruned_event \notin yielded
    /\ \A e2 \in yielded : \A e1 \in Events \ {pruned_event} :
         CausallyBefore(e1, e2) => e1 \in completed
    /\ Cardinality(yielded \ completed) <= 1
    /\ pc = "outer" => completed = Events \ {pruned_event}

C8_Witness ==
  /\ klass = "MCSFinder"
  /\ Len(visited) >= 2
  /\ pc = "running"
  /\ \E e1 \in completed :
       CausallyBefore(e1, pruned_event) /\ CausallyBefore(pruned_event, running)
  /\ \E e1 \in completed : e1 > running

\* C9: when MCSFinder terminates after a control run that reproduced the
\* violation, the returned sequence still reproduces the violation and no
\* single event of it can be removed without losing the violation.
C9_ResultIsFixedPoint ==
  (klass = "MCSFinder" /\ pc = "done" /\ controlResult = <<TRUE>>) =>
    /\ Reproduces(Range(mcs))
    /\ \A e \in Range(mcs) : ~Reproduces(Range(mcs) \ {e})

(***************************************************************************)
(* Properties of the deferred connections and their buffer                 *)
(***************************************************************************)
Count(seq, x) == Cardinality({i \in 1..Len(seq) : seq[i] = x})

\* The entries of one kind, connection and message that were released
Released(kind, c, m) ==
  {h \in Range(issued) :
     h.kind = kind /\ h.conn = c /\ h.msg = m /\ releases[h.id] >= 1}

\* C3: every handle is destroyed at most once, by release or by drop, and
\* is buffered exactly until then; the true handler of a connection has been
\* called once per released receipt of that connection, with its message,
\* and not otherwise; a schedule or drop that succeeded removed the entry,
\* and one that failed with NotFound was given a handle already destroyed.
C3_ScheduleDeliversExactlyOnce ==
  /\ \A h \in Range(issued) :
       /\ releases[h.id] + drops[h.id] <= 1
       /\ Buffered(h) <=> (releases[h.id] + drops[h.id] = 0)
  /\ \A c \in Conns, m \in Messages :
       Count(delivered, [conn |-> c, msg |-> m])
         = Cardinality(Released("receive", c, m))
  /\ lastOp # <<>> =>
       LET h == issued[lastOp[1].id]
       IN  /\ ~Buffered(h)
           /\ releases[h.id] + drops[h.id] = 1
           /\ (lastOp[1].op = "schedule" /\ lastOp[1].result = "ok")
                => releases[h.id] = 1

C3_Witness ==
  /\ lastOp = <<[op |-> "schedule", id |-> 1, result |-> "NotFound"]>>
  /\ issued[1].kind = "receive"
  /\ releases[1] = 1
  /\ delivered = <<[conn |-> issued[1].conn, msg |-> issued[1].msg]>>
  /\ Len(pending_receives) = 2

\* C4: the true handler has been called, and the transport used, for no
\* more messages than were released; an entry that was neither released nor
\* dropped is still in the buffer.
C4_NothingPassesUnlessReleased ==
  /\ \A c \in Conns, m \in Messages :
       /\ Count(delivered, [conn |-> c, msg |-> m])
            <= Cardinality(Released("receive", c, m))
       /\ Count(transport, [conn |-> c, msg |-> m])
            <= Cardinality(Released("send", c, m))
  /\ \A h \in Range(issued) :
       (releases[h.id] = 0 /\ drops[h.id] = 0) => Buffered(h)

C4_Witness ==
  /\ pending_receives # <<>>
  /\ pending_sends # <<>>
  /\ delivered = <<>>
  /\ transport = <<>>
  /\ Len(issued) = MaxMessages

(***************************************************************************)
(* Properties of the replay sync callback                                  *)
(***************************************************************************)
\* The calls made for key k are n state_change calls followed by g gc calls
CallsAre(k, n, g) ==
  /\ Len(calls[k]) = n + g
  /\ \A i \in 1..(n + g) : calls[k][i] = (IF i <= n THEN "s" ELSE "g")

\* C10: after k >= 1 state_change calls for a key and no gc call, the key is
\* pending with count k; after k matching gc calls the count is 0, the key
\* is not pending and is not stored; calls for other keys change none of it.
C10_CountsFollowCalls ==
  \A key \in StateChanges : \A k \in 1..Len(calls[key]) :
    /\ CallsAre(key, k, 0) =>
         /\ state_change_pending(key)
         /\ key \in DOMAIN pending_state_changes
         /\ pending_state_changes[key] = k
    /\ CallsAre(key, k, k) =>
         /\ CounterGet(pending_state_changes, key) = 0
         /\ ~state_change_pending(key)
         /\ key \notin DOMAIN pending_state_changes

C10_Witness ==
  \E key \in StateChanges, other \in StateChanges :
    /\ key # other
    /\ CallsAre(key, 2, 2)
    /\ CallsAre(other, 3, 0)
    /\ pending_state_changes[other] = 3

\* C11: every key stored in pending_state_changes has a count above 0 and
\* has been reported by state_change: neither a query nor a garbage
\* collection, of a reported or of a never reported key, leaves a key with a
\* zero or negative count behind.
C11_StoredCountsArePositive ==
  \A key \in DOMAIN pending_state_changes :
    /\ pending_state_changes[key] > 0
    /\ Count(calls[key], "s") > 0

C11_Witness ==
  \E key \in StateChanges, other \in StateChanges :
    /\ calls[key] = <<"g">>
    /\ lastPending = <<[key |-> key, result |-> FALSE]>>
    /\ key \notin DOMAIN pending_state_changes
    /\ calls[other] = <<"s", "g", "s">>
    /\ other \in DOMAIN pending_state_changes

\* C15: in the replay and in the recording callback, get_deterministic_value
\* of an operation name other than gettimeofday raises ValueError and returns
\* no value, and the call leaves pending_state_changes, the interpolated
\* time and the input log as they were.
C15_UnknownOperationRaises ==
  /\ [](lastReturn # <<>> /\ lastReturn[1].name # "gettimeofday"
          => lastReturn[1].outcome = [raised |-> "ValueError", value |-> <<>>])
  /\ [][lastReturn' # lastReturn /\ lastReturn'[1].name # "gettimeofday"
          => UNCHANGED <<pending_state_changes, interpolated_time,
                         input_log>>]_vars

C15_Witness ==
  /\ lastReturn # <<>>
  /\ lastReturn[1].callback = "recording"
  /\ lastReturn[1].name = "getpid"
  /\ lastReturn[1].outcome.raised = "ValueError"
  /\ lastPending # <<>>
  /\ pending_state_changes # <<>>

(***************************************************************************)
(* Properties of the Fuzzer                                                *)
(***************************************************************************)
\* The calls of the round in progress
Did(name, arg) ==
  \E i \in 1..Len(round_calls) : round_calls[i] = Call(name, arg)

Times(c) == Cardinality({i \in 1..Len(round_calls) : round_calls[i] = c})

AllBefore(first, second) ==
  \A i, j \in 1..Len(round_calls) :
    round_calls[i].call \in first /\ round_calls[j].call \in second => i < j

IsPrefix(a, b) == Len(a) <= Len(b) /\ a = SubSeq(b, 1, Len(a))

\* The order of the steps of a round as the specification gives it
ClaimedOrder ==
  <<"check_dataplane", "check_tcp_connections", "check_message_receipts",
    "check_switch_crashes", "check_controllers", "fuzz_traffic",
    "maybe_check_correspondence", "maybe_inject_trace_event">>

StepsEntered ==
  LET es == SelectSeq(round_calls, LAMBDA c : c.call \in Range(ClaimedOrder))
  IN  [i \in 1..Len(es) |-> es[i].call]

\* C17: the steps of a round run in the order dataplane, control channel,
\* message receipts, switch failures, link failures, controller failures,
\* traffic injection, periodic checks; no controller is killed or started in
\* a round after synthetic traffic has been injected in it.
C17_StepsInClaimedOrder ==
  /\ IsPrefix(StepsEntered, ClaimedOrder)
  /\ AllBefore({"crash_switch", "recover_switch"},
               {"sever_link", "repair_link"})
  /\ AllBefore({"sever_link", "repair_link"}, {"kill", "start"})
  /\ AllBefore({"kill", "start"}, {"generate"})

\* The dataplane events of the run and what the round did with them
Fingerprints == 1..Len(dp_events)
Queued(f) == dp_events[f] \in Range(queued_dataplane_events)
PanelCalls(f) ==
  Times(Call("delay_dp_event", f)) + Times(Call("drop_dp_event", f))
    + Times(Call("permit_dp_event", f))
\* check_dataplane has returned in this round
DataplaneStepDone ==
  /\ round_calls # <<>>
  /\ fpc # "check_dataplane"
  /\ ~(fpc = "error" /\ round_calls = Enter("check_dataplane"))

\* The call at position i is followed at once by the log call c
FollowedBy(i, c) == i < Len(round_calls) /\ round_calls[i + 1] = c

\* C18: in a round check_dataplane applies at most one of delay, drop and
\* permit to each queued dataplane event; delay goes first (at delay rate 1.0
\* everything is delayed, whatever the drop rate), drop is for events not
\* delayed, permit for events neither delayed nor dropped that are
\* ok_to_send; an event neither delayed nor dropped and not ok_to_send gets
\* no call and no log record. Drops and permits are logged, delays are not.
C18_DelayThenDropThenPermit ==
  DataplaneStepDone =>
    /\ \A f \in Fingerprints :
         /\ PanelCalls(f) <= 1
         /\ Did("permit_dp_event", f) => dp_events[f].ok
         /\ Did("drop_dp_event", f) \/ Did("permit_dp_event", f) => ~Queued(f)
         /\ Did("delay_dp_event", f) => Queued(f)
         /\ Queued(f) /\ PanelCalls(f) = 0 =>
              /\ ~dp_events[f].ok
              /\ Times(LogCall("DataplaneDrop", f)) = 0
              /\ Times(LogCall("DataplanePermit", f)) = 0
         /\ params.dataplane_delay_rate = 10 /\ Queued(f) =>
              Did("delay_dp_event", f)
         /\ params.dataplane_delay_rate = 10 =>
              ~Did("drop_dp_event", f) /\ ~Did("permit_dp_event", f)
         /\ params.dataplane_delay_rate = 0 => ~Did("delay_dp_event", f)
         /\ params.dataplane_drop_rate = 0 => ~Did("drop_dp_event", f)
    /\ \A i \in 1..Len(round_calls) :
         LET c == round_calls[i]
         IN  /\ c.call = "drop_dp_event" =>
                  FollowedBy(i, LogCall("DataplaneDrop", c.arg))
             /\ c.call = "permit_dp_event" =>
                  FollowedBy(i, LogCall("DataplanePermit", c.arg))
             /\ c.call = "delay_dp_event" =>
                  ~(i < Len(round_calls)
                      /\ round_calls[i + 1].call = "_log_input_event")
             /\ c.klass \in {"DataplaneDrop", "DataplanePermit"} =>
                  /\ i > 1
                  /\ round_calls[i - 1].arg = c.arg
                  /\ round_calls[i - 1].call =
                       (IF c.klass = "DataplaneDrop" THEN "drop_dp_event"
                        ELSE "permit_dp_event")

C18_Witness ==
  /\ DataplaneStepDone
  /\ Len(dp_events) = 3
  /\ Did("delay_dp_event", 1)
  /\ Did("drop_dp_event", 2)
  /\ Queued(3) /\ PanelCalls(3) = 0
  /\ params.dataplane_delay_rate = 5

\* C19: with dataplane_drop_rate 1.0 and dataplane_delay_rate 0.0 each round
\* drops every queued dataplane event, delays and permits none, and an
\* attached input logger holds exactly one DataplaneDrop record for each
\* event dropped (no logger attached: nothing is recorded).
C19_DropsAndLogsEveryEvent ==
  (params.dataplane_drop_rate = 10 /\ params.dataplane_delay_rate = 0) =>
    /\ DataplaneStepDone => queued_dataplane_events = <<>>
    /\ \A f \in Fingerprints :
         /\ ~Did("delay_dp_event", f) /\ ~Did("permit_dp_event", f)
         /\ Times(Call("drop_dp_event", f)) <= 1
         /\ Count(input_log, [klass |-> "DataplaneDrop", arg |-> f]) =
              (IF Queued(f) \/ input_logger = "None" THEN 0 ELSE 1)
         /\ Count(input_log, [klass |-> "DataplanePermit", arg |-> f]) = 0

C19_Witness ==
  /\ params.dataplane_drop_rate = 10 /\ params.dataplane_delay_rate = 0
  /\ input_logger = "logger"
  /\ logical_time = 2
  /\ Did("drop_dp_event", 2) /\ Did("drop_dp_event", 3)
  /\ input_log = <<[klass |-> "DataplaneDrop", arg |-> 1],
                   [klass |-> "DataplaneDrop", arg |-> 2],
                   [klass |-> "DataplaneDrop", arg |-> 3]>>

\* C20: within a round no switch gets both crash_switch and recover_switch,
\* no link both sever_link and repair_link, no controller both kill and
\* start; what was crashed in the round is still down when the step is
\* over; the crashes of a class come before its recoveries.
C20_NoRecoveryOfWhatCrashedThisRound ==
  /\ \A sw \in Switches :
       Did("crash_switch", sw) =>
         ~Did("recover_switch", sw) /\ sw \notin live_switches
  /\ \A link \in Links :
       Did("sever_link", link) =>
         ~Did("repair_link", link) /\ link \notin live_links
  /\ \A ctl \in Controllers :
       Did("kill", ctl) =>
         ~Did("start", ctl) /\ ctl \notin live_controllers
  /\ AllBefore({"crash_switch"}, {"recover_switch"})
  /\ AllBefore({"sever_link"}, {"repair_link"})
  /\ AllBefore({"kill"}, {"start"})

C20_Witness ==
  /\ logical_time = 2
  /\ Did("crash_switch", 1)
  /\ Did("recover_switch", 2)
  /\ live_switches = {2}
  /\ Did("sever_link", 1)

\* C21: the control channel step of a round blocks the connections chosen,
\* logs them and completes without error: no round ends in
\* check_tcp_connections.
C21_ControlChannelStepCompletes ==
  /\ ~(fpc = "error" /\ raised = "AttributeError"
         /\ defined_rates = RateNames
         /\ round_calls[Len(round_calls)] = Call("check_tcp_connections", 0))
  /\ (params.controlplane_block_rate = 10
        /\ Did("check_message_receipts", 0)) =>
       blocked_controller_connections = Switches

\* The record kind that belongs to each call that changes observable state
KindOf ==
  [drop_dp_event |-> "DataplaneDrop", permit_dp_event |-> "DataplanePermit",
   block_connection |-> "ControlChannelBlock",
   unblock_connection |-> "ControlChannelUnBlock",
   schedule |-> "ControlMessageReceive",
   crash_switch |-> "SwitchFailure", recover_switch |-> "SwitchRecovery",
   sever_link |-> "LinkFailure", repair_link |-> "LinkRecovery",
   kill |-> "ControllerCrash", start |-> "ControllerRecovery",
   generate |-> "TrafficInjection", inject_trace_event |-> "TrafficInjection"]

\* The log calls of the round in progress, as records
RoundRecords ==
  LET ls == SelectSeq(round_calls, LAMBDA c : c.call = "_log_input_event")
  IN  [i \in 1..Len(ls) |-> [klass |-> ls[i].klass, arg |-> ls[i].arg]]

C23_LoggerClosedOnEveryExit ==
  /\ closed <= 1
  /\ (fpc \in {"done", "error"} /\ bootstraps > 0
        /\ input_logger # "None") => closed = 1

\* C24: a Fuzzer constructed with the round budget steps = N runs N rounds:
\* logical_time never passes N, and is N when loop has returned.
C24_RoundBudgetRespected ==
  /\ logical_time <= steps
  /\ (fpc = "done" => logical_time = steps)

\* C25: the correspondence check does not block the round loop: while the
\* check is still running on its thread the loop goes on to the rest of the
\* round and to further rounds.
C25_CheckDoesNotBlockLoop ==
  (fpc = "correspondence" /\ thread_alive) ~> (fpc # "correspondence")

(***************************************************************************)
(* Properties of Interactive                                               *)
(***************************************************************************)
\* The receipts scheduled in the round so far, in the order of the calls
ScheduledInRound ==
  LET cs == SelectSeq(round_calls, LAMBDA c : c.call = "schedule")
  IN  [i \in 1..Len(cs) |-> cs[i].arg]

\* C26: Interactive releases control-message receipts first in, first out:
\* the receipts are handed to the true handler in the order of their
\* insertion, each at most once; when check_message_receipts has returned
\* every receipt inserted so far has been released once and none is left in
\* the buffer; each schedule call is followed at once by the
\* ControlMessageReceive log call for the same receipt.
C26_ReceiptsReleasedFifo ==
  /\ Len(delivered) <= Len(issued)
  /\ \A i \in 1..Len(delivered) :
       delivered[i] = [conn |-> issued[i].conn, msg |-> issued[i].msg]
  /\ \A h \in Range(issued) : releases[h.id] <= 1 /\ drops[h.id] = 0
  /\ \A i, j \in 1..Len(ScheduledInRound) :
       i < j => ScheduledInRound[i] < ScheduledInRound[j]
  /\ \A i \in 1..Len(round_calls) :
       round_calls[i].call = "schedule" =>
         FollowedBy(i, LogCall("ControlMessageReceive", round_calls[i].arg))
  /\ fpc = "i_continue" =>
       /\ pending_receives = <<>>
       /\ Len(delivered) = Len(issued)
       /\ \A h \in Range(issued) : releases[h.id] = 1

C26_Witness ==
  /\ fpc = "i_continue"
  /\ logical_time = 2
  /\ Len(issued) = 3
  /\ ScheduledInRound = <<2, 3>>
  /\ input_log = <<[klass |-> "ControlMessageReceive", arg |-> 1],
                   [klass |-> "ControlMessageReceive", arg |-> 2],
                   [klass |-> "ControlMessageReceive", arg |-> 3]>>

(***************************************************************************)
(* Properties of the recording sync callback                               *)
(***************************************************************************)
\* The record of a reported state change
StateChangeRecord(k) ==
  [klass |-> "ControllerStateChange", controller_id |-> k.controller_id,
   time |-> k.time, fingerprint |-> k.fingerprint, name |-> k.name,
   value |-> k.value]

\* C27: with a logger attached the log holds one ControllerStateChange
\* record per state_change call, in call order, each with the controller's
\* id and the time, fingerprint, name and value of the call; with no logger
\* attached nothing is recorded; the recording callback keeps no pending
\* state changes.
C27_StateChangeRecordedVerbatim ==
  /\ input_logger # "None" =>
       input_log = [i \in 1..Len(round_calls) |->
                      StateChangeRecord(round_calls[i].arg)]
  /\ input_logger = "None" => input_log = <<>>
  /\ pending_state_changes = <<>>
  /\ \A k \in StateChanges : calls[k] = <<>>

C27_Witness ==
  /\ input_logger = "logger"
  /\ Len(round_calls) = 3
  /\ round_calls[1] = round_calls[3]
  /\ round_calls[1] # round_calls[2]
  /\ Len(input_log) = 3
  /\ input_log[3].time = SyncTime(1, 1)

\* C28: a Fuzzer whose parameters module is absent, or lacks a rate that a
\* round reads, fails at construction: it never reaches bootstrap or a round.
C28_MalformedParamsFailAtConstruction ==
  (raised = "IOError" \/ defined_rates # RateNames) =>
    /\ bootstraps = 0
    /\ logical_time = 0

(***************************************************************************)
(* Properties of the fault injections                                      *)
(***************************************************************************)
\* The entities are the same after call i as before it
NoChange(i) ==
  /\ entity_calls[i].switch = entity_calls[i - 1].switch
  /\ entity_calls[i].controller = entity_calls[i - 1].controller

\* C29: fail on a failed switch, recover on a switch that is up, kill on a
\* controller that is not ALIVE and start on one that is not DEAD change
\* nothing; fail, recover, kill or start called again with the same
\* argument at once after itself changes nothing.
C29_FaultInjectionIdempotent ==
  \A i \in 2..Len(entity_calls) :
    LET c == entity_calls[i]
        before == entity_calls[i - 1]
    IN  /\ c.call = "fail" /\ before.switch.failed => NoChange(i)
        /\ c.call = "recover" /\ ~before.switch.failed => NoChange(i)
        /\ c.call = "kill" /\ before.controller.state # "ALIVE" =>
             NoChange(i)
        /\ c.call = "start" /\ before.controller.state # "DEAD" =>
             NoChange(i)
        /\ (c.call \in {"fail", "recover", "kill", "start"}
              /\ before.call = c.call /\ before.arg = c.arg) => NoChange(i)

C29_Witness ==
  /\ Len(entity_calls) = 4
  /\ entity_calls[2].call = "connect"
  /\ entity_calls[3].call = "fail"
  /\ entity_calls[4].call = "fail"
  /\ switch.failed
  /\ switch.closed_connections = {1, 2}

(***************************************************************************)
(* Properties of the buffer under concurrent insertion                     *)
(***************************************************************************)
\* C30: whatever the interleaving of the transport's insertions with the
\* control thread's iteration over pending_receives() and its schedule and
\* drop calls, no entry is lost (each one is buffered until it is released
\* or dropped, once), no receipt reaches the true handler twice, and no
\* schedule or drop of the iteration fails with NotFound.
C30_DrainSafeUnderInsertion ==
  /\ \A h \in Range(issued) :
       /\ releases[h.id] + drops[h.id] <= 1
       /\ Buffered(h) <=> (releases[h.id] + drops[h.id] = 0)
       /\ h.kind = "receive" =>
            Count(delivered, [conn |-> h.conn, msg |-> h.msg])
              = releases[h.id]
  /\ \A h \in Range(iterator) : Buffered(h)
  /\ lastOp # <<>> => lastOp[1].result = "ok"

C30_Witness ==
  /\ Len(iterator) = 1
  /\ Len(issued) = 3
  /\ issued[3] \in Range(pending_receives)
  /\ issued[3] \notin Range(iterator)
  /\ iterator[1] = issued[2]
  /\ releases[1] = 1

(***************************************************************************)
(* Further properties of the Fuzzer                                        *)
(***************************************************************************)
\* check_message_receipts has returned in this round
ReceiptsStepDone ==
  /\ Did("check_message_receipts", 0)
  /\ fpc # "check_message_receipts"

\* C31: in check_message_receipts every receipt is scheduled at most once in
\* the round and never after it was released (no receipt is released twice,
\* no schedule fails); a scheduled receipt has left the buffer and its
\* schedule call is followed at once by one ControlMessageReceive log call;
\* a receipt that was not scheduled is still buffered, in its place.
C31_ReceiptsConsideredOnce ==
  /\ \A h \in Range(issued) :
       /\ releases[h.id] <= 1
       /\ Times(Call("schedule", h.id)) <= releases[h.id]
       /\ Buffered(h) <=> releases[h.id] = 0
  /\ \A i, j \in 1..Len(pending_receives) :
       i < j => pending_receives[i].id < pending_receives[j].id
  /\ lastOp # <<>> => lastOp[1].result = "ok"
  /\ \A i \in 1..Len(round_calls) :
       round_calls[i].call = "schedule" =>
         /\ FollowedBy(i, LogCall("ControlMessageReceive", round_calls[i].arg))
         /\ Times(LogCall("ControlMessageReceive", round_calls[i].arg)) = 1

C31_Witness ==
  /\ ReceiptsStepDone
  /\ logical_time = 2
  /\ Len(issued) = 3
  /\ releases[1] = 0
  /\ Did("schedule", 2)
  /\ releases[3] = 1
  /\ ~Did("schedule", 3)
  /\ Len(pending_receives) = 1

(***************************************************************************)
(* Further properties of Interactive                                       *)
(***************************************************************************)
\* The answer for the event f in this round was one of answers
Answered(f, answers) ==
  \E a \in answers : Did(dp_raw_input(dp_events[f], a).call, f)

\* Interactive.check_dataplane has returned and the round is not over
InteractiveDataplaneDone ==
  /\ Did("check_dataplane", 0)
  /\ fpc \in {"i_check_message_receipts", "i_continue"}

\* C32: in Interactive.check_dataplane every queued event is asked about
\* once and gets exactly one of permit, drop and delay: permit exactly when
\* the answer is empty or 'a' and the event is ok_to_send, drop exactly on
\* 'd', delay in every other case; permit and drop are followed at once by a
\* DataplanePermit or DataplaneDrop log call, delay by none; permitted and
\* dropped events leave the queue, delayed ones stay.
C32_OneDecisionPerAnswer ==
  InteractiveDataplaneDone =>
    /\ \A f \in Fingerprints :
         /\ PanelCalls(f) <= 1
         /\ PanelCalls(f) = 1 <=> Answered(f, DpAnswers)
         /\ Queued(f) => Did("delay_dp_event", f)
         /\ Did("delay_dp_event", f) => Queued(f)
         /\ PanelCalls(f) = 1 /\ ~Did("delay_dp_event", f) => ~Queued(f)
         /\ Did("permit_dp_event", f) <=>
              Answered(f, {"", "a"}) /\ dp_events[f].ok
         /\ Did("drop_dp_event", f) <=> Answered(f, {"d"})
         /\ Did("delay_dp_event", f) <=>
              \/ Answered(f, {"e", "x"})
              \/ Answered(f, {"", "a"}) /\ ~dp_events[f].ok
    /\ \A i \in 1..Len(round_calls) :
         LET c == round_calls[i]
         IN  /\ c.call = "permit_dp_event" =>
                  FollowedBy(i, LogCall("DataplanePermit", c.arg))
             /\ c.call = "drop_dp_event" =>
                  FollowedBy(i, LogCall("DataplaneDrop", c.arg))
             /\ c.call = "delay_dp_event" =>
                  ~(i < Len(round_calls)
                      /\ round_calls[i + 1].call = "_log_input_event")
             /\ c.klass \in {"DataplaneDrop", "DataplanePermit"} =>
                  /\ i > 1
                  /\ round_calls[i - 1].arg = c.arg
                  /\ round_calls[i - 1].call =
                       (IF c.klass = "DataplaneDrop" THEN "drop_dp_event"
                        ELSE "permit_dp_event")

C32_Witness ==
  /\ InteractiveDataplaneDone
  /\ Len(dp_events) = 3
  /\ Did("raw_input 'a'", 1) /\ ~dp_events[1].ok /\ Did("delay_dp_event", 1)
  /\ Did("raw_input ''", 2) /\ Did("permit_dp_event", 2)
  /\ Did("raw_input 'd'", 3) /\ Did("drop_dp_event", 3)
  /\ input_log = <<[klass |-> "DataplanePermit", arg |-> 2],
                   [klass |-> "DataplaneDrop", arg |-> 3]>>

(***************************************************************************)
(* Further properties of MCSFinder                                         *)
(***************************************************************************)
\* C33: while a watcher of a pruned pass runs, the interpolated time is the
\* one computed from that watcher's event: a time query returns a value
\* strictly before the event's timestamp.
C33_PrunedPassRecomputesTime ==
  (klass = "MCSFinder" /\ visited # <<>> /\ pc = "running") =>
    /\ get_interpolated_time = compute_interpolated_time(dag[running])
    /\ TimeLess(get_interpolated_time, dag[running])

(***************************************************************************)
(* Properties of the correspondence check                                  *)
(***************************************************************************)
\* What a round of the Fuzzer changes: the round counter, the log, the
\* topology, the buffers and the patch panel
RoundEffects ==
  <<logical_time, round_calls, input_log, closed, live_switches, live_links,
    live_controllers, blocked_controller_connections,
    queued_dataplane_events, pending_receives, delivered, releases>>

\* C34: while the thread of a correspondence check is alive the control
\* thread is inside maybe_check_correspondence and stays there: its steps
\* send keepalives and join, and change neither the round counter, the log,
\* the topology nor the buffers; no second check is started, and the round
\* goes on only once the thread has finished.
C34_OnlyKeepalivesWhileCheckAlive ==
  [][thread_alive =>
       /\ fpc = "correspondence"
       /\ fpc' = "correspondence"
       /\ echo_requests' = echo_requests + 1
       /\ UNCHANGED RoundEffects]_vars

C34_Witness ==
  /\ fpc = "correspondence"
  /\ thread_alive
  /\ echo_requests = 2
  /\ logical_time = 2
  /\ input_log # <<>>

(***************************************************************************)
(* Properties of the switch's connections                                  *)
(***************************************************************************)
\* The connections of the switch that are not closed
OpenConnections(sw) == Range(sw.connections) \ sw.closed_connections

\* C35: after any sequence of connect, fail, recover and send calls a
\* switch that is failed has no open connection and has transmitted on no
\* connection since it failed; a fail call leaves the switch failed with
\* every connection closed and the list of connections empty.
C35_FailedSwitchHasNoConnections ==
  /\ switch.failed => OpenConnections(switch) = {}
  /\ \A i \in 2..Len(entity_calls) :
       entity_calls[i].call = "fail" =>
         /\ entity_calls[i].switch.failed
         /\ entity_calls[i].switch.connections = <<>>
         /\ OpenConnections(entity_calls[i].switch) = {}

(***************************************************************************)
(* Properties of the delayed flow_mods                                     *)
(***************************************************************************)
\* The switch buffers flow_mods and orders them by random weights
DelayedRandomized ==
  /\ switch.on_message_received = "on_message_received_delayed"
  /\ switch.randomized

\* The calls of process_delayed_command that returned a command
Pops ==
  {i \in 2..Len(entity_calls) : entity_calls[i].arg.kind = "scheduled"}

\* C36 as stated: in delayed-command mode with randomize_flow_mods the
\* commands popped by process_delayed_command come out in ascending order
\* of the weights drawn at receipt.
C36_PopsAscendByWeight ==
  DelayedRandomized =>
    \A i, j \in Pops :
      i < j => entity_calls[i].arg.weight <= entity_calls[j].arg.weight

\* C36 amended: in delayed-command mode with randomize_flow_mods a received
\* flow_mod is buffered and queued and leaves the flow table alone; any
\* other message is processed on receipt; process_delayed_command pops a
\* command whose weight is the smallest of those queued at the time of the
\* call and applies it then, so that every flow_mod is in the table once if
\* popped and not at all otherwise; on an empty queue it raises Queue.Empty
\* and changes nothing.
C36_PopsSmallestQueuedWeight ==
  DelayedRandomized =>
    \A i \in 2..Len(entity_calls) :
      LET c == entity_calls[i]
          before == entity_calls[i - 1].switch
          after == c.switch
      IN  /\ (c.call = "on_message_received"
               /\ c.arg.kind = "ofp_flow_mod") =>
                /\ after.table = before.table
                /\ after.processed = before.processed
                /\ after.cmd_queue = before.cmd_queue
                     \cup {[weight |-> c.arg.weight, receive |-> c.arg.id]}
                /\ c.arg.id \notin Range(before.table)
          /\ (c.call = "on_message_received"
               /\ c.arg.kind # "ofp_flow_mod") =>
                /\ after.processed = Append(before.processed, c.arg.id)
                /\ after.table = before.table
                /\ after.cmd_queue = before.cmd_queue
          /\ c.arg.kind = "scheduled" =>
                /\ [weight |-> c.arg.weight, receive |-> c.arg.id]
                     \in before.cmd_queue
                /\ \A f \in before.cmd_queue : c.arg.weight <= f.weight
                /\ after.table = Append(before.table, c.arg.id)
                /\ c.arg.id \notin Range(before.table)
                /\ c.arg.id \notin {f.receive : f \in after.cmd_queue}
          /\ c.call = "process_delayed_command" =>
                (before.cmd_queue = {} <=>
                   (c.arg.kind = "Queue.Empty" /\ after = before))

C36_Witness ==
  /\ DelayedRandomized
  /\ Len(entity_calls) = 6
  /\ entity_calls[2].arg = Command("ofp_flow_mod", 2, 1)
  /\ entity_calls[3].arg = Command("scheduled", 2, 1)
  /\ entity_calls[4].arg = Command("ofp_flow_mod", 1, 2)
  /\ entity_calls[5].arg = Command("scheduled", 1, 2)
  /\ entity_calls[6].arg.kind = "Queue.Empty"
  /\ switch.table = <<1, 2>>

(***************************************************************************)
(* Properties of the controllers' states                                   *)
(***************************************************************************)
\* The controller's process is registered for cleanup
Registered(ctl) == ctl.process # 0 /\ ctl.process \in ctl.active_processes

\* C37: after any sequence of start, kill, restart and check_status calls
\* on a process-based Controller, the state is ALIVE exactly when process
\* is set and registered in _active_processes; start and restart change
\* something only from DEAD and then lead to ALIVE; kill changes something
\* only from ALIVE and leads to DEAD with the process unset and out of the
\* registry; a start or restart with an empty start command leaves the
\* controller DEAD with nothing registered.
C37_AliveIffProcessRegistered ==
  controller.sort = "Controller" =>
    /\ controller.state \in {"ALIVE", "DEAD"}
    /\ controller.state = "ALIVE" <=> Registered(controller)
    /\ \A i \in 2..Len(entity_calls) :
         LET c == entity_calls[i]
             before == entity_calls[i - 1].controller
             after == c.controller
         IN  /\ c.call \in {"start", "restart"} =>
                  IF before.state = "DEAD" /\ before.start_cmd # ""
                  THEN after.state = "ALIVE" /\ Registered(after)
                  ELSE after = before
             /\ c.call = "kill" =>
                  IF before.state = "ALIVE"
                  THEN /\ after.state = "DEAD"
                       /\ after.process = 0
                       /\ before.process \notin after.active_processes
                  ELSE after = before
             /\ (c.call \in {"start", "restart"} /\ before.start_cmd = "") =>
                  after.state = "DEAD" /\ after.active_processes = {}

C37_Witness ==
  /\ controller.sort = "Controller"
  /\ Len(entity_calls) = 4
  /\ entity_calls[2].call = "start"
  /\ entity_calls[3].call = "kill"
  /\ entity_calls[4].call = "restart"
  /\ entity_calls[3].controller.state = "DEAD"
  /\ controller.state = "ALIVE"
  /\ controller.process = 2
  /\ controller.active_processes = {2}

\* C38: no start, restart, kill or check_status call changes the state of
\* a VMController, BigSwitchController or ONOSController that is STARTING.
C38_StartingIsAbsorbing ==
  [][(controller.sort \in VMSorts /\ controller.state = "STARTING") =>
       controller'.state = "STARTING"]_vars

C38_Witness ==
  /\ controller.sort = "BigSwitchController"
  /\ controller.state = "STARTING"
  /\ Len(entity_calls) = 4
  /\ entity_calls[2].call = "restart"
  /\ entity_calls[3].call = "check_status"
  /\ entity_calls[4].call = "kill"

(***************************************************************************)
(* Properties of kill_children                                             *)
(***************************************************************************)
\* The signal a call of kill_children sent last to each child on the list
SentToEach(c) ==
  \A child \in c.targets :
    /\ c.sent[child] # <<>>
    /\ c.sent[child][Len(c.sent[child])] =
         (IF c.kill THEN "kill" ELSE "terminate")

\* What the calls and the returns of kill_children so far were
KillChildrenEscalates ==
  /\ \A k \in 1..Len(debugger.kill_calls) :
       LET c == debugger.kill_calls[k]
       IN  /\ SentToEach(c)
           /\ c.argless =>
                (c.kill <=> \E j \in 1..(k - 1) : debugger.kill_calls[j].argless)
           /\ ~c.argless =>
                /\ c.kill
                /\ c.targets # {}
                /\ k > 1
                /\ ~debugger.kill_calls[k - 1].kill
  /\ \A k \in 1..Len(debugger.returned) :
       LET r == debugger.returned[k]
       IN  /\ r.why \in {"empty", "timeout", "kill_children"}
           /\ r.why = "empty" => r.left = 0
           /\ r.why = "timeout" => r.kill /\ r.elapsed > kill_timeout
           /\ r.why = "kill_children" =>
                ~r.kill /\ r.elapsed > kill_timeout /\ r.left > 0
  /\ \A k \in 1..Len(debugger.frames) :
       debugger.frames[k].at = "while" =>
         debugger.frames[k].elapsed <= kill_timeout

\* C39: the first call of kill_children() sends terminate to every child on
\* the list and every later call of kill_children() sends kill; a terminate
\* attempt that has children left after 5 seconds returns
\* kill_children(kill=True); kill_children returns only with an empty list
\* or from a kill attempt that has waited 5 seconds; and every activation
\* of kill_children comes to an end, whatever the passes over the list
\* remove from it.
C39_KillChildrenEscalatesAndEnds ==
  /\ []KillChildrenEscalates
  /\ (debugger.frames # <<>>) ~> (debugger.frames = <<>>)

C39_Witness ==
  /\ Len(debugger.kill_calls) = 2
  /\ debugger.kill_calls[1].argless /\ ~debugger.kill_calls[1].kill
  /\ ~debugger.kill_calls[2].argless /\ debugger.kill_calls[2].kill
  /\ debugger.kill_calls[2].targets = {1, 2}
  /\ debugger.child_processes = <<2>>
  /\ debugger.exited = {1, 2}
  /\ debugger.frames # <<>>
  /\ Top.at = "while"
  /\ Top.elapsed > 0

====
